---- MODULE Spec2Model ----
(***************************************************************************)
(* The file organizer of projects/python-tools/file_organizer.py:          *)
(* the rule table, the classifier get_file_category, the folder structure  *)
(* of create_organized_structure, and organize_directory / organize_file   *)
(* acting on a file system.                                                *)
(*                                                                         *)
(* A Python str is a sequence of one-character strings, so that suffix,    *)
(* stem, lower(), the substring test "in" and the formatting of numbers    *)
(* and dates are computed as the code computes them.  A path is the        *)
(* sequence of its components from the file-system root.                   *)
(***************************************************************************)
EXTENDS Integers, Sequences, FiniteSets, TLC

----------------------------------------------------------------------------
(* Bounds of the model *)

\* organize_directory calls made on one FileOrganizer instance
MaxRuns == 2

\* iterations of the name-collision loop after which the model gives up
MaxTries == 6

----------------------------------------------------------------------------
(* Python str operations *)

UpperChars == <<"A", "B", "C", "D", "E", "F", "G", "H", "I", "J", "K", "L", "M", "N", "O", "P", "Q", "R", "S", "T", "U", "V", "W", "X", "Y", "Z">>
LowerChars == <<"a", "b", "c", "d", "e", "f", "g", "h", "i", "j", "k", "l", "m", "n", "o", "p", "q", "r", "s", "t", "u", "v", "w", "x", "y", "z">>
DigitChars == <<"0", "1", "2", "3", "4", "5", "6", "7", "8", "9">>

\* str.lower(), one character
lower_char(c) ==
    IF \E i \in 1..Len(UpperChars) : UpperChars[i] = c
    THEN LowerChars[CHOOSE i \in 1..Len(UpperChars) : UpperChars[i] = c]
    ELSE c

\* a bug: the case of the letters is kept
lower_keeps_case(s) == s

\* str.lower()
lower(s) == [i \in 1..Len(s) |-> lower_char(s[i])]

\* sub in s
str_in(sub, s) ==
    \E i \in 0..(Len(s) - Len(sub)) : SubSeq(s, i + 1, i + Len(sub)) = sub

\* x in list
list_in(x, list) == \E i \in 1..Len(list) : list[i] = x

\* s.rfind("."), 0-based, -1 when there is none
rfind_dot(s) ==
    IF \E i \in 1..Len(s) : s[i] = "."
    THEN (CHOOSE i \in 1..Len(s) :
             s[i] = "." /\ \A j \in (i + 1)..Len(s) : s[j] # ".") - 1
    ELSE -1

\* PurePath.suffix of a file name
suffix(name) ==
    LET i == rfind_dot(name)
    IN  IF 0 < i /\ i < Len(name) - 1 THEN SubSeq(name, i + 1, Len(name)) ELSE <<>>

\* PurePath.stem of a file name
stem(name) ==
    LET i == rfind_dot(name)
    IN  IF 0 < i /\ i < Len(name) - 1 THEN SubSeq(name, 1, i) ELSE name

\* str(n) of an integer n >= 0
RECURSIVE str_int(_)
str_int(n) ==
    IF n < 10 THEN <<DigitChars[n + 1]>>
    ELSE str_int(n \div 10) \o <<DigitChars[(n % 10) + 1]>>

\* n as decimal digits, padded with zeros to the given width
RECURSIVE zero_pad(_, _)
zero_pad(s, width) == IF Len(s) >= width THEN s ELSE zero_pad(<<"0">> \o s, width)

\* a bug: the month is not padded to two digits
strftime_Y_m_unpadded(mtime) == str_int(mtime.year) \o <<"-">> \o str_int(mtime.month)

\* datetime.strftime("%Y-%m") of a modification time [year, month]
strftime_Y_m(mtime) ==
    zero_pad(str_int(mtime.year), 4) \o <<"-">> \o zero_pad(str_int(mtime.month), 2)

----------------------------------------------------------------------------
(* Paths *)

\* PurePath.name
path_name(p) == p[Len(p)]

\* PurePath.parent; the parent of the root is the root
path_parent(p) == IF p = <<>> THEN <<>> ELSE SubSeq(p, 1, Len(p) - 1)

\* p / name
path_join(p, name) == Append(p, name)

\* whether path a is path b or an ancestor of it
is_prefix(a, b) == Len(a) <= Len(b) /\ SubSeq(b, 1, Len(a)) = a

\* str(path) of an absolute path
RECURSIVE path_str(_)
path_str(p) ==
    IF p = <<>> THEN <<"/">>
    ELSE IF Len(p) = 1 THEN <<"/">> \o p[1]
    ELSE path_str(path_parent(p)) \o <<"/">> \o path_name(p)

----------------------------------------------------------------------------
(* The configuration: self.config.  A JSON object keeps its keys in order,  *)
(* so "rules" and "subfolders" are sequences of (key, value) entries.       *)

\* a category of the rule table without the optional "subfolders" key
Rule(name, extensions, folder) ==
    [name |-> name, extensions |-> extensions, folder |-> folder,
     has_subfolders |-> FALSE, subfolders |-> <<>>]

\* a category of the rule table with its "subfolders" mapping
RuleSub(name, extensions, folder, subfolders) ==
    [name |-> name, extensions |-> extensions, folder |-> folder,
     has_subfolders |-> TRUE, subfolders |-> subfolders]

Sub(name, patterns) == [name |-> name, patterns |-> patterns]

\* default_config["rules"]
DefaultRules == <<
    RuleSub(<<"i", "m", "a", "g", "e", "s">>,
        <<<<".", "j", "p", "g">>, <<".", "j", "p", "e", "g">>, <<".", "p", "n", "g">>, <<".", "g", "i", "f">>, <<".", "b", "m", "p">>, <<".", "t", "i", "f", "f">>, <<".", "s", "v", "g">>>>,
        <<"I", "m", "a", "g", "e", "s">>,
        <<Sub(<<"s", "c", "r", "e", "e", "n", "s", "h", "o", "t", "s">>, <<<<"s", "c", "r", "e", "e", "n", "s", "h", "o", "t">>, <<"s", "c", "r", "e", "e", "n", "_", "s", "h", "o", "t">>, <<"c", "a", "p", "t", "u", "r", "e">>>>),
          Sub(<<"p", "h", "o", "t", "o", "s">>, <<<<"p", "h", "o", "t", "o">>, <<"i", "m", "g">>, <<"p", "i", "c", "t", "u", "r", "e">>>>),
          Sub(<<"i", "c", "o", "n", "s">>, <<<<"i", "c", "o", "n">>, <<"i", "c", "o">>>>)>>),
    RuleSub(<<"d", "o", "c", "u", "m", "e", "n", "t", "s">>,
        <<<<".", "p", "d", "f">>, <<".", "d", "o", "c">>, <<".", "d", "o", "c", "x">>, <<".", "t", "x", "t">>, <<".", "r", "t", "f">>, <<".", "o", "d", "t">>>>,
        <<"D", "o", "c", "u", "m", "e", "n", "t", "s">>,
        <<Sub(<<"p", "d", "f", "s">>, <<<<".", "p", "d", "f">>>>),
          Sub(<<"w", "o", "r", "d", "_", "d", "o", "c", "s">>, <<<<".", "d", "o", "c">>, <<".", "d", "o", "c", "x">>>>),
          Sub(<<"t", "e", "x", "t", "_", "f", "i", "l", "e", "s">>, <<<<".", "t", "x", "t">>, <<".", "r", "t", "f">>>>)>>),
    RuleSub(<<"v", "i", "d", "e", "o", "s">>,
        <<<<".", "m", "p", "4">>, <<".", "a", "v", "i">>, <<".", "m", "o", "v">>, <<".", "w", "m", "v">>, <<".", "f", "l", "v">>, <<".", "m", "k", "v">>>>,
        <<"V", "i", "d", "e", "o", "s">>,
        <<Sub(<<"m", "o", "v", "i", "e", "s">>, <<<<"m", "o", "v", "i", "e">>, <<"f", "i", "l", "m">>>>),
          Sub(<<"t", "u", "t", "o", "r", "i", "a", "l", "s">>, <<<<"t", "u", "t", "o", "r", "i", "a", "l">>, <<"g", "u", "i", "d", "e">>, <<"h", "o", "w", "_", "t", "o">>>>)>>),
    RuleSub(<<"a", "u", "d", "i", "o">>,
        <<<<".", "m", "p", "3">>, <<".", "w", "a", "v">>, <<".", "f", "l", "a", "c">>, <<".", "a", "a", "c">>, <<".", "o", "g", "g">>>>,
        <<"A", "u", "d", "i", "o">>,
        <<Sub(<<"m", "u", "s", "i", "c">>, <<<<"m", "u", "s", "i", "c">>, <<"s", "o", "n", "g">>>>),
          Sub(<<"p", "o", "d", "c", "a", "s", "t", "s">>, <<<<"p", "o", "d", "c", "a", "s", "t">>, <<"e", "p", "i", "s", "o", "d", "e">>>>),
          Sub(<<"s", "o", "u", "n", "d", "s">>, <<<<"s", "o", "u", "n", "d">>, <<"s", "f", "x">>, <<"e", "f", "f", "e", "c", "t">>>>)>>),
    Rule(<<"a", "r", "c", "h", "i", "v", "e", "s">>,
        <<<<".", "z", "i", "p">>, <<".", "r", "a", "r">>, <<".", "7", "z">>, <<".", "t", "a", "r">>, <<".", "g", "z">>, <<".", "b", "z", "2">>>>,
        <<"A", "r", "c", "h", "i", "v", "e", "s">>),
    RuleSub(<<"c", "o", "d", "e">>,
        <<<<".", "p", "y">>, <<".", "j", "s">>, <<".", "h", "t", "m", "l">>, <<".", "c", "s", "s">>, <<".", "c", "p", "p">>, <<".", "j", "a", "v", "a">>, <<".", "c">>>>,
        <<"C", "o", "d", "e">>,
        <<Sub(<<"p", "y", "t", "h", "o", "n">>, <<<<".", "p", "y">>>>),
          Sub(<<"w", "e", "b">>, <<<<".", "h", "t", "m", "l">>, <<".", "c", "s", "s">>, <<".", "j", "s">>>>),
          Sub(<<"c", "p", "p">>, <<<<".", "c", "p", "p">>, <<".", "c">>, <<".", "h">>>>)>>) >>

\* default_config["ignore_folders"]
DefaultIgnoreFolders == <<<<"o", "r", "g", "a", "n", "i", "z", "e", "d">>, <<"s", "y", "s", "t", "e", "m">>, <<"p", "r", "o", "g", "r", "a", "m", " ", "f", "i", "l", "e", "s">>, <<"w", "i", "n", "d", "o", "w", "s">>>>

\* A rule table as a user writes it into the configuration file: ".png" is
\* listed by two categories, and the second category is named like the
\* first category's subfolder key "images" + "_" + "raw".
CustomRules == <<
    RuleSub(<<"i", "m", "a", "g", "e", "s">>, <<<<".", "p", "n", "g">>>>, <<"I", "m", "a", "g", "e", "s">>,
        <<Sub(<<"r", "a", "w">>, <<<<"r", "a", "w">>>>),
          Sub(<<"s", "h", "o", "t", "s">>, <<<<"s", "h", "o", "t">>>>)>>),
    Rule(<<"i", "m", "a", "g", "e", "s", "_", "r", "a", "w">>, <<<<".", "p", "n", "g">>, <<".", "c", "r", "2">>>>, <<"R", "a", "w">>) >>

RuleTables == {DefaultRules, CustomRules}

\* the returned category when no rule matches
MISC == <<"m", "i", "s", "c">>

----------------------------------------------------------------------------
(* The classifier *)

\* one pattern of a subfolder against the file: pattern in file_name or pattern == file_ext
pattern_matches(pattern, file_name, file_ext) ==
    str_in(pattern, file_name) \/ pattern = file_ext

\* whether the inner loop over a subfolder's patterns returns
subfolder_matches(sub, file_name, file_ext) ==
    \E k \in 1..Len(sub.patterns) : pattern_matches(sub.patterns[k], file_name, file_ext)

\* a bug: picks the last matching subfolder instead of returning at the first
RECURSIVE scan_subfolders_last(_, _, _, _)
scan_subfolders_last(subfolders, j, file_name, file_ext) ==
    IF j > Len(subfolders) THEN <<>>
    ELSE LET rest == scan_subfolders_last(subfolders, j + 1, file_name, file_ext)
         IN  IF rest # <<>> THEN rest
             ELSE IF subfolder_matches(subfolders[j], file_name, file_ext)
                  THEN subfolders[j].name
                  ELSE <<>>

\* the loop over rules["subfolders"].items(), from entry j on: the name of the
\* first subfolder with a matching pattern, "" when the loop falls through
RECURSIVE scan_subfolders(_, _, _, _)
scan_subfolders(subfolders, j, file_name, file_ext) ==
    IF j > Len(subfolders) THEN <<>>
    ELSE IF subfolder_matches(subfolders[j], file_name, file_ext)
         THEN subfolders[j].name
         ELSE scan_subfolders(subfolders, j + 1, file_name, file_ext)

\* a bug: "return category, ''" indented into the subfolder branch, so that a
\* category without a matching subfolder falls through to the later categories
RECURSIVE scan_rules_fallthrough(_, _, _, _)
scan_rules_fallthrough(rules, i, file_name, file_ext) ==
    IF i > Len(rules) THEN <<MISC, <<>>>>
    ELSE IF list_in(file_ext, rules[i].extensions)
            /\ rules[i].has_subfolders
            /\ scan_subfolders(rules[i].subfolders, 1, file_name, file_ext) # <<>>
         THEN <<rules[i].name,
                scan_subfolders(rules[i].subfolders, 1, file_name, file_ext)>>
         ELSE scan_rules_fallthrough(rules, i + 1, file_name, file_ext)

\* the loop over self.config["rules"].items(), from entry i on
RECURSIVE scan_rules(_, _, _, _)
scan_rules(rules, i, file_name, file_ext) ==
    IF i > Len(rules) THEN <<MISC, <<>>>>
    ELSE IF list_in(file_ext, rules[i].extensions)
         THEN IF rules[i].has_subfolders
              THEN <<rules[i].name,
                     scan_subfolders(rules[i].subfolders, 1, file_name, file_ext)>>
              ELSE <<rules[i].name, <<>>>>
         ELSE scan_rules(rules, i + 1, file_name, file_ext)

\* get_file_category(file_path): the pair (category, subfolder)
get_file_category(rules, name) ==
    scan_rules(rules, 1, lower(stem(name)), lower(suffix(name)))

----------------------------------------------------------------------------
(* The file system: the set of directories and the regular files, each file *)
(* with its content, its modification time and whether it can be read.      *)

File(content, year, month, readable) ==
    [content |-> content, mtime |-> [year |-> year, month |-> month],
     readable |-> readable]

\* Path.exists()
exists(d, f, p) == p \in d \/ p \in DOMAIN f

\* the entries of a directory
entries(d, f, folder) ==
    {p \in (d \cup DOMAIN f) : p # <<>> /\ path_parent(p) = folder}

\* Path.mkdir(parents=..., exist_ok=...): whether it returns normally, and the
\* directories afterwards
RECURSIVE mkdir(_, _, _, _, _)
mkdir(d, f, p, parents, exist_ok) ==
    IF p \in d THEN [ok |-> exist_ok, dirs |-> d]
    ELSE IF p \in DOMAIN f THEN [ok |-> FALSE, dirs |-> d]
    ELSE IF path_parent(p) \in d THEN [ok |-> TRUE, dirs |-> d \cup {p}]
    ELSE IF path_parent(p) \in DOMAIN f THEN [ok |-> FALSE, dirs |-> d]
    ELSE IF ~parents THEN [ok |-> FALSE, dirs |-> d]
    ELSE LET up == mkdir(d, f, path_parent(p), TRUE, TRUE)
         IN  IF up.ok THEN [ok |-> TRUE, dirs |-> up.dirs \cup {p}]
             ELSE [ok |-> FALSE, dirs |-> up.dirs]

\* the files after dst has been written with the file at src
write_file(f, src, dst) ==
    [p \in DOMAIN f \cup {dst} |-> IF p = dst THEN f[src] ELSE f[p]]

\* shutil.copy2(src, dst): whether it returns normally, and the files afterwards
copy2(d, f, src, dst) ==
    LET real_dst == IF dst \in d THEN path_join(dst, path_name(src)) ELSE dst
    IN  IF src \notin DOMAIN f THEN [ok |-> FALSE, files |-> f]
        ELSE IF ~f[src].readable THEN [ok |-> FALSE, files |-> f]
        ELSE IF real_dst \in d \/ path_parent(real_dst) \notin d
             THEN [ok |-> FALSE, files |-> f]
        ELSE [ok |-> TRUE, files |-> write_file(f, src, real_dst)]

\* a bug: the file is left at src
move_keeps_source(d, f, src, dst) == copy2(d, f, src, dst)

\* shutil.move(src, dst), a rename within one file system
move(d, f, src, dst) ==
    LET real_dst == IF dst \in d THEN path_join(dst, path_name(src)) ELSE dst
    IN  IF src \notin DOMAIN f THEN [ok |-> FALSE, files |-> f]
        ELSE IF exists(d, f, real_dst) /\ dst \in d THEN [ok |-> FALSE, files |-> f]
        ELSE IF real_dst \in d \/ path_parent(real_dst) \notin d
             THEN [ok |-> FALSE, files |-> f]
        ELSE [ok |-> TRUE,
              files |-> [p \in (DOMAIN f \ {src}) \cup {real_dst} |->
                            IF p = real_dst THEN f[src] ELSE f[p]]]

----------------------------------------------------------------------------
(* create_organized_structure *)

\* folder_map[key] = path
map_set(fm, key, path) ==
    [k \in DOMAIN fm \cup {key} |-> IF k = key THEN path ELSE fm[k]]

\* folder_map.get(key, default)
map_get(fm, key, default) == IF key \in DOMAIN fm THEN fm[key] ELSE default

\* the key of a subfolder in folder_map: f"{category}_{subfolder}"
subfolder_key(category, subfolder) == category \o <<"_">> \o subfolder

\* base_path / "organized"
organized_path(base_path) == path_join(base_path, <<"o", "r", "g", "a", "n", "i", "z", "e", "d">>)

\* misc_path
misc_path(base_path) == path_join(organized_path(base_path), <<"M", "i", "s", "c", "e", "l", "l", "a", "n", "e", "o", "u", "s">>)

\* The structure under construction: whether no mkdir has raised, the
\* directories, the directories_created counter and folder_map.

\* the loop over rules["subfolders"].keys() of one category, from entry j on
RECURSIVE create_subfolders(_, _, _, _, _, _, _)
create_subfolders(acc, f, dry_run, category, category_path, subfolders, j) ==
    IF j > Len(subfolders) \/ ~acc.ok THEN acc
    ELSE LET subfolder_path == path_join(category_path, subfolders[j].name)
             mk == IF dry_run THEN [ok |-> TRUE, dirs |-> acc.dirs]
                   ELSE mkdir(acc.dirs, f, subfolder_path, FALSE, TRUE)
         IN  IF ~mk.ok THEN [acc EXCEPT !.ok = FALSE, !.dirs = mk.dirs]
             ELSE create_subfolders(
                      [ok |-> TRUE,
                       dirs |-> mk.dirs,
                       created |-> IF dry_run THEN acc.created ELSE acc.created + 1,
                       folder_map |-> map_set(acc.folder_map,
                                          subfolder_key(category, subfolders[j].name),
                                          subfolder_path)],
                      f, dry_run, category, category_path, subfolders, j + 1)

\* the loop over self.config["rules"].items(), from entry i on
RECURSIVE create_categories(_, _, _, _, _, _)
create_categories(acc, f, dry_run, base_path, rules, i) ==
    IF i > Len(rules) \/ ~acc.ok THEN acc
    ELSE LET category_path == path_join(organized_path(base_path), rules[i].folder)
             mk == IF dry_run THEN [ok |-> TRUE, dirs |-> acc.dirs]
                   ELSE mkdir(acc.dirs, f, category_path, TRUE, TRUE)
             here == [ok |-> mk.ok,
                      dirs |-> mk.dirs,
                      created |-> IF dry_run \/ ~mk.ok THEN acc.created
                                  ELSE acc.created + 1,
                      folder_map |-> IF mk.ok
                                     THEN map_set(acc.folder_map, rules[i].name,
                                                  category_path)
                                     ELSE acc.folder_map]
             subs == IF rules[i].has_subfolders
                     THEN create_subfolders(here, f, dry_run, rules[i].name,
                                            category_path, rules[i].subfolders, 1)
                     ELSE here
         IN  create_categories(subs, f, dry_run, base_path, rules, i + 1)

\* a bug: the folders are made in a dry run too
skip_mkdir_never(cfg) == FALSE

\* 'if not self.config["dry_run"]' around each mkdir of the structure
skip_mkdir(cfg) == cfg.dry_run

\* create_organized_structure(base_path): ok is FALSE when a mkdir raised
create_organized_structure(cfg, d, f, created, base_path) ==
    LET cats == create_categories(
                    [ok |-> TRUE, dirs |-> d, created |-> created,
                     folder_map |-> [k \in {} |-> <<>>]],
                    f, skip_mkdir(cfg), base_path, cfg.rules, 1)
        mk == IF skip_mkdir(cfg) THEN [ok |-> TRUE, dirs |-> cats.dirs]
              ELSE mkdir(cats.dirs, f, misc_path(base_path), TRUE, TRUE)
    IN  IF ~cats.ok THEN cats
        ELSE [ok |-> mk.ok,
              dirs |-> mk.dirs,
              created |-> cats.created,
              folder_map |-> IF mk.ok
                             THEN map_set(cats.folder_map, MISC, misc_path(base_path))
                             ELSE cats.folder_map]

----------------------------------------------------------------------------
(* The configuration file: json.dump and json.load.  A JSON document is a   *)
(* tree of values; an object is the sequence of its members as written.     *)

JStr(s) == [t |-> "string", v |-> s]
JBool(b) == [t |-> "bool", v |-> b]
JArr(elements) == [t |-> "array", v |-> elements]
JObj(members) == [t |-> "object", v |-> members]
JMember(key, value) == [k |-> key, v |-> value]

\* a list of str as a JSON array
dump_list(list) == JArr([i \in 1..Len(list) |-> JStr(list[i])])

\* rules[category]["subfolders"] as a JSON object
dump_subfolders(subfolders) ==
    JObj([j \in 1..Len(subfolders) |->
             JMember(subfolders[j].name, dump_list(subfolders[j].patterns))])

\* one category of the rule table as a JSON object: its keys in the order of
\* the dict, "subfolders" only when the dict has the key
dump_rule(rule) ==
    JObj(<<JMember(<<"e", "x", "t", "e", "n", "s", "i", "o", "n", "s">>, dump_list(rule.extensions)),
           JMember(<<"f", "o", "l", "d", "e", "r">>, JStr(rule.folder))>>
         \o (IF rule.has_subfolders
             THEN <<JMember(<<"s", "u", "b", "f", "o", "l", "d", "e", "r", "s">>, dump_subfolders(rule.subfolders))>>
             ELSE <<>>))

\* json.dump(self.config, f, indent=2): the document written
json_dump(cfg) ==
    JObj(<<JMember(<<"r", "u", "l", "e", "s">>,
                   JObj([i \in 1..Len(cfg.rules) |->
                            JMember(cfg.rules[i].name, dump_rule(cfg.rules[i]))])),
           JMember(<<"i", "g", "n", "o", "r", "e", "_", "f", "o", "l", "d", "e", "r", "s">>, dump_list(cfg.ignore_folders)),
           JMember(<<"d", "r", "y", "_", "r", "u", "n">>, JBool(cfg.dry_run)),
           JMember(<<"c", "r", "e", "a", "t", "e", "_", "d", "a", "t", "e", "_", "f", "o", "l", "d", "e", "r", "s">>, JBool(cfg.create_date_folders)),
           JMember(<<"b", "a", "c", "k", "u", "p", "_", "e", "n", "a", "b", "l", "e", "d">>, JBool(cfg.backup_enabled))>>)

\* the keys of the dict json.load builds from an object: each key once, at
\* the place of its first member
RECURSIVE dict_keys(_, _)
dict_keys(members, n) ==
    IF n = 0 THEN <<>>
    ELSE LET before == dict_keys(members, n - 1)
         IN  IF list_in(members[n].k, before) THEN before
             ELSE Append(before, members[n].k)

\* dict[key] after json.load: the value of the last member with the key
dict_get(obj, key) ==
    obj.v[CHOOSE i \in 1..Len(obj.v) :
              obj.v[i].k = key /\ \A j \in (i + 1)..Len(obj.v) : obj.v[j].k # key].v

\* key in dict
dict_has(obj, key) == \E i \in 1..Len(obj.v) : obj.v[i].k = key

\* a JSON array of strings as a list of str
load_list(arr) == [i \in 1..Len(arr.v) |-> arr.v[i].v]

\* the "subfolders" mapping of a loaded category
load_subfolders(obj) ==
    LET keys == dict_keys(obj.v, Len(obj.v))
    IN  [j \in 1..Len(keys) |-> Sub(keys[j], load_list(dict_get(obj, keys[j])))]

\* one loaded category of the rule table
load_rule(name, obj) ==
    [name |-> name,
     extensions |-> load_list(dict_get(obj, <<"e", "x", "t", "e", "n", "s", "i", "o", "n", "s">>)),
     folder |-> dict_get(obj, <<"f", "o", "l", "d", "e", "r">>).v,
     has_subfolders |-> dict_has(obj, <<"s", "u", "b", "f", "o", "l", "d", "e", "r", "s">>),
     subfolders |-> IF dict_has(obj, <<"s", "u", "b", "f", "o", "l", "d", "e", "r", "s">>)
                    THEN load_subfolders(dict_get(obj, <<"s", "u", "b", "f", "o", "l", "d", "e", "r", "s">>))
                    ELSE <<>>]

\* a bug: the rule table is loaded in sorted instead of document order (here:
\* reversed)
load_rules_reversed(obj) ==
    LET keys == dict_keys(obj.v, Len(obj.v))
    IN  [i \in 1..Len(keys) |->
            load_rule(keys[Len(keys) + 1 - i],
                      dict_get(obj, keys[Len(keys) + 1 - i]))]

\* the loaded rule table: the categories in the order of the document
load_rules(obj) ==
    LET keys == dict_keys(obj.v, Len(obj.v))
    IN  [i \in 1..Len(keys) |-> load_rule(keys[i], dict_get(obj, keys[i]))]

\* json.load(f) of a document that holds a configuration: self.config
json_load(doc) ==
    [rules |-> load_rules(dict_get(doc, <<"r", "u", "l", "e", "s">>)),
     ignore_folders |-> load_list(dict_get(doc, <<"i", "g", "n", "o", "r", "e", "_", "f", "o", "l", "d", "e", "r", "s">>)),
     dry_run |-> dict_get(doc, <<"d", "r", "y", "_", "r", "u", "n">>).v,
     create_date_folders |-> dict_get(doc, <<"c", "r", "e", "a", "t", "e", "_", "d", "a", "t", "e", "_", "f", "o", "l", "d", "e", "r", "s">>).v,
     backup_enabled |-> dict_get(doc, <<"b", "a", "c", "k", "u", "p", "_", "e", "n", "a", "b", "l", "e", "d">>).v]

\* default_config
DefaultConfig ==
    [rules |-> DefaultRules,
     ignore_folders |-> DefaultIgnoreFolders,
     dry_run |-> FALSE,
     create_date_folders |-> TRUE,
     backup_enabled |-> TRUE]

\* The configuration file on disk: absent, a text that is no JSON
\* ("malformed"), or a JSON document; writes counts the times it was written.
AbsentFile == [state |-> "absent", doc |-> JObj(<<>>), writes |-> 0]
MalformedFile == [state |-> "malformed", doc |-> JObj(<<>>), writes |-> 0]
JsonFile(doc) == [state |-> "json", doc |-> doc, writes |-> 0]

\* a bug: the defaults are saved over a file that could not be parsed
load_config_saves_on_error(file) ==
    IF file.state = "json"
    THEN [config |-> json_load(file.doc), file |-> file]
    ELSE [config |-> DefaultConfig,
          file |-> [state |-> "json", doc |-> json_dump(DefaultConfig),
                    writes |-> file.writes + 1]]

\* load_config with save_config: self.config and the file afterwards
load_config(file) ==
    IF file.state = "json"
    THEN [config |-> json_load(file.doc), file |-> file]
    ELSE IF file.state = "malformed"
    THEN [config |-> DefaultConfig, file |-> file]
    ELSE [config |-> DefaultConfig,
          file |-> [state |-> "json", doc |-> json_dump(DefaultConfig),
                    writes |-> file.writes + 1]]

----------------------------------------------------------------------------
(* organize_file *)

\* a bug: the counter advances by two
next_counter_skip(counter) == counter + 2

\* a bug: the counter is never advanced
next_counter_stuck(counter) == counter

\* counter += 1
next_counter(counter) == counter + 1

\* the candidate name of one round of the loop: f"{stem}_{counter}{suffix}"
conflict_name(name, counter) ==
    stem(name) \o <<"_">> \o str_int(counter) \o suffix(name)

\* "while dest_path.exists()": the path the loop ends with, the number of
\* exists() tests it made, and whether it ended within MaxTries tests
RECURSIVE conflict_loop(_, _, _, _, _, _, _)
conflict_loop(d, f, dest_folder, name, dest_path, counter, tries) ==
    IF ~exists(d, f, dest_path)
    THEN [dest_path |-> dest_path, tries |-> tries, ended |-> TRUE]
    ELSE IF tries >= MaxTries
    THEN [dest_path |-> dest_path, tries |-> tries, ended |-> FALSE]
    ELSE conflict_loop(d, f, dest_folder, name,
                       path_join(dest_folder, conflict_name(name, counter)),
                       next_counter(counter), tries + 1)

\* a bug: no loop, the first candidate is taken as it is
resolve_conflict_none(d, f, dest_folder, name) ==
    [dest_path |-> path_join(dest_folder, name), tries |-> 1, ended |-> TRUE]

\* "Handle filename conflicts": dest_path = dest_folder / file_path.name,
\* counter = 1, then the loop
resolve_conflict(d, f, dest_folder, name) ==
    conflict_loop(d, f, dest_folder, name, path_join(dest_folder, name), 1, 1)

\* dest_path.relative_to(file_path.parent.parent) returns normally
relative_to_ok(dest_path, file_path) ==
    is_prefix(path_parent(path_parent(file_path)), dest_path)

\* "Determine destination": the folder before the date folder is added
base_folder(fm, category, subfolder) ==
    IF subfolder # <<>>
    THEN map_get(fm, subfolder_key(category, subfolder), fm[category])
    ELSE fm[category]

\* a bug: the exception of one file is not caught and ends the run
on_exception_abort(q) == <<>>

\* "except Exception": the files still to process after one has raised
on_exception(q) == Tail(q)

\* a bug: files_moved is counted in a dry run too
files_moved_increment_always(cfg) == 1

\* what a file that was handled without an exception adds to
\* stats["files_moved"]: the increment is inside "if not dry_run"
files_moved_increment(cfg) == IF cfg.dry_run THEN 0 ELSE 1

\* whether organize_file calls date_folder.mkdir
makes_date_folder(cfg) == cfg.create_date_folders /\ ~cfg.dry_run

\* organize_file(file_path, folder_map) on the file system (d, f).
\*   raised      an exception left the call
\*   dirs, files the file system afterwards
\*   moved       the increment of stats["files_moved"]
\*   chose       the collision loop was reached and ended
organize_file(cfg, fm, d, f, file_path) ==
    LET name == path_name(file_path)
        cs == get_file_category(cfg.rules, name)
        category == cs[1]
        subfolder == cs[2]
        base == base_folder(fm, category, subfolder)
        stat_ok == file_path \in DOMAIN f
        date_folder == path_join(base, strftime_Y_m(f[file_path].mtime))
        mk == IF makes_date_folder(cfg)
              THEN mkdir(d, f, date_folder, FALSE, TRUE)
              ELSE [ok |-> TRUE, dirs |-> d]
        dest_folder == IF cfg.create_date_folders THEN date_folder ELSE base
        loop == resolve_conflict(mk.dirs, f, dest_folder, name)
        io == IF cfg.dry_run THEN [ok |-> TRUE, files |-> f]
              ELSE IF cfg.backup_enabled
                   THEN copy2(mk.dirs, f, file_path, loop.dest_path)
                   ELSE move(mk.dirs, f, file_path, loop.dest_path)
        none == [raised |-> TRUE, hung |-> FALSE, dirs |-> d, files |-> f, moved |-> 0,
                 category |-> category, subfolder |-> subfolder,
                 dest_folder |-> <<>>, dest_path |-> <<>>,
                 chose |-> FALSE, tries |-> 0, entries |-> 0]
    IN  IF cfg.create_date_folders /\ ~stat_ok THEN none
        ELSE IF ~mk.ok THEN [none EXCEPT !.dirs = mk.dirs]
        ELSE LET found == [none EXCEPT
                              !.dirs = mk.dirs,
                              !.dest_folder = dest_folder,
                              !.dest_path = loop.dest_path,
                              !.chose = loop.ended,
                              !.tries = loop.tries,
                              !.entries = Cardinality(entries(mk.dirs, f, dest_folder))]
             IN  IF ~loop.ended THEN [found EXCEPT !.hung = TRUE]
                 ELSE IF ~relative_to_ok(loop.dest_path, file_path) THEN found
                 ELSE IF ~io.ok THEN found
                 ELSE [found EXCEPT !.raised = FALSE,
                                    !.files = io.files,
                                    !.moved = files_moved_increment(cfg)]

----------------------------------------------------------------------------
(* organize_directory: the files to process *)

\* a bug: no folder is pruned from the walk
should_ignore_folder_never(ignore_folders, folder_name) == FALSE

\* should_ignore_folder(folder_name)
should_ignore_folder(ignore_folders, folder_name) ==
    \E i \in 1..Len(ignore_folders) : str_in(ignore_folders[i], lower(folder_name))

\* "organized" not in str(file_path)
not_in_organized(file_path) == ~str_in(<<"o", "r", "g", "a", "n", "i", "z", "e", "d">>, path_str(file_path))

\* os.walk(source) with the ignored folders pruned: the files appended to
\* files_to_process from directory root downwards
RECURSIVE walk(_, _, _, _)
walk(ignore_folders, d, f, root) ==
    {p \in DOMAIN f : path_parent(p) = root /\ not_in_organized(p)}
    \cup UNION {walk(ignore_folders, d, f, sub) :
                  sub \in {s \in d : s # <<>> /\ path_parent(s) = root
                                     /\ ~should_ignore_folder(ignore_folders,
                                                              path_name(s))}}

\* [f for f in source.iterdir() if f.is_file()]
iterdir_files(f, source_dir) == {p \in DOMAIN f : path_parent(p) = source_dir}

\* the sequences that list every element of a set once
orderings(S) ==
    {q \in [1..Cardinality(S) -> S] : \A i, j \in 1..Cardinality(S) : q[i] = q[j] => i = j}

\* The orders in which the directory listing can yield the files.  iterdir and
\* os.walk list a directory in the order the file system gives; os.walk is
\* top-down, so the files of a directory come together and before the files of
\* the directories below it.
listing_orders(S, is_walk) ==
    {q \in orderings(S) :
        is_walk =>
          /\ \A i, j \in 1..Len(q) :
                (i < j) => ~(path_parent(q[j]) # path_parent(q[i])
                             /\ is_prefix(path_parent(q[j]), path_parent(q[i])))
          /\ \A i, j, k \in 1..Len(q) :
                (i < j /\ j < k /\ path_parent(q[i]) = path_parent(q[k]))
                    => path_parent(q[j]) = path_parent(q[i])}

----------------------------------------------------------------------------
(* The state *)

VARIABLES
    config,       \* self.config
    stats,        \* self.stats
    dirs,         \* the directories of the file system
    files,        \* the regular files of the file system
    pc,           \* "idle", or "running" inside the loop of organize_directory
    recursive,    \* the recursive argument of the running organize_directory
    folder_map,   \* its folder_map
    queue,        \* its files_to_process still to come
    runs,         \* organize_directory calls made so far
    last,         \* what the latest organize_file call did
    cl_name,      \* the file name get_file_category was last applied to
    cl_result,    \* and the pair it returned
    config_file,  \* the configuration file on disk
    args,         \* the command line main() was started with, if it was
    hist,         \* a record of the calls made, kept for the properties
    cleanup,      \* the tree and the latest call of cleanup_old_files
    generator     \* the tree and the latest call of generate_project

vars == <<config, stats, dirs, files, pc, recursive, folder_map, queue, runs,
          last, cl_name, cl_result, config_file, args, hist, cleanup, generator>>

\* the variables of the organizer
organizer_vars ==
    <<config, stats, dirs, files, pc, recursive, folder_map, queue, runs,
      last, cl_name, cl_result, config_file, args, hist>>

\* the variables of the other tools
other_tools == <<cleanup, generator>>

\* the other tools are not in use
NoTool == [calls |-> 0]

\* the directory the organizer is run on, and one that does not exist
SourceDir == <<<<"d">>>>
MissingDir == <<<<"n", "o", "w", "h", "e", "r", "e">>>>

Root == <<>>

\* the trees the organizer is started on
FlatTree ==
    [dirs  |-> {Root, SourceDir},
     files |-> (<<<<"d">>, <<"s", "c", "r", "e", "e", "n", "s", "h", "o", "t", ".", "p", "n", "g">>>> :> File(1, 2024, 1, TRUE))
            @@ (<<<<"d">>, <<"r", "a", "w", "_", "s", "h", "o", "t", ".", "p", "n", "g">>>> :> File(2, 2024, 1, TRUE))
            @@ (<<<<"d">>, <<"n", "o", "t", "e", "s">>>> :> File(3, 2023, 12, TRUE))]

NestedTree ==
    [dirs  |-> {Root, SourceDir, <<<<"d">>, <<"s", "u", "b">>>>, <<<<"d">>, <<"s", "u", "b">>, <<"d", "e", "e", "p">>>>},
     files |-> (<<<<"d">>, <<"s", "c", "r", "e", "e", "n", "s", "h", "o", "t", ".", "p", "n", "g">>>> :> File(1, 2024, 1, TRUE))
            @@ (<<<<"d">>, <<"s", "u", "b">>, <<"s", "c", "r", "e", "e", "n", "s", "h", "o", "t", ".", "p", "n", "g">>>> :> File(2, 2024, 1, TRUE))
            @@ (<<<<"d">>, <<"s", "u", "b">>, <<"d", "e", "e", "p">>, <<"x", ".", "p", "d", "f">>>> :> File(3, 2024, 2, TRUE))]

\* a tree that an earlier invocation has organized, with a file that cannot
\* be read
OrganizedTree ==
    [dirs  |-> {Root, SourceDir,
                <<<<"d">>, <<"o", "r", "g", "a", "n", "i", "z", "e", "d">>>>,
                <<<<"d">>, <<"o", "r", "g", "a", "n", "i", "z", "e", "d">>, <<"I", "m", "a", "g", "e", "s">>>>,
                <<<<"d">>, <<"o", "r", "g", "a", "n", "i", "z", "e", "d">>, <<"I", "m", "a", "g", "e", "s">>, <<"s", "c", "r", "e", "e", "n", "s", "h", "o", "t", "s">>>>,
                <<<<"d">>, <<"o", "r", "g", "a", "n", "i", "z", "e", "d">>, <<"I", "m", "a", "g", "e", "s">>, <<"s", "c", "r", "e", "e", "n", "s", "h", "o", "t", "s">>, <<"2", "0", "2", "4", "-", "0", "1">>>>},
     files |-> (<<<<"d">>, <<"s", "c", "r", "e", "e", "n", "s", "h", "o", "t", ".", "p", "n", "g">>>> :> File(1, 2024, 1, TRUE))
            @@ (<<<<"d">>, <<"l", "o", "c", "k", "e", "d", ".", "p", "d", "f">>>> :> File(2, 2024, 5, FALSE))
            @@ (<<<<"d">>, <<"o", "r", "g", "a", "n", "i", "z", "e", "d">>, <<"I", "m", "a", "g", "e", "s">>, <<"s", "c", "r", "e", "e", "n", "s", "h", "o", "t", "s">>, <<"s", "c", "r", "e", "e", "n", "s", "h", "o", "t", ".", "p", "n", "g">>>>
                    :> File(7, 2023, 7, TRUE))
            @@ (<<<<"d">>, <<"o", "r", "g", "a", "n", "i", "z", "e", "d">>, <<"I", "m", "a", "g", "e", "s">>, <<"s", "c", "r", "e", "e", "n", "s", "h", "o", "t", "s">>, <<"s", "c", "r", "e", "e", "n", "s", "h", "o", "t", "_", "1", ".", "p", "n", "g">>>>
                    :> File(8, 2023, 8, TRUE))
            @@ (<<<<"d">>, <<"o", "r", "g", "a", "n", "i", "z", "e", "d">>, <<"I", "m", "a", "g", "e", "s">>, <<"s", "c", "r", "e", "e", "n", "s", "h", "o", "t", "s">>, <<"2", "0", "2", "4", "-", "0", "1">>,
                  <<"s", "c", "r", "e", "e", "n", "s", "h", "o", "t", ".", "p", "n", "g">>>> :> File(9, 2024, 1, TRUE))]

\* a tree with files in and below a folder the default configuration ignores
SystemTree ==
    [dirs  |-> {Root, SourceDir, <<<<"d">>, <<"S", "y", "s", "t", "e", "m">>>>, <<<<"d">>, <<"S", "y", "s", "t", "e", "m">>, <<"i", "n", "n", "e", "r">>>>},
     files |-> (<<<<"d">>, <<"s", "c", "r", "e", "e", "n", "s", "h", "o", "t", "_", "2", "0", "2", "4", ".", "p", "n", "g">>>> :> File(1, 2024, 3, TRUE))
            @@ (<<<<"d">>, <<"S", "y", "s", "t", "e", "m">>, <<"a", ".", "t", "x", "t">>>> :> File(2, 2024, 3, TRUE))
            @@ (<<<<"d">>, <<"S", "y", "s", "t", "e", "m">>, <<"i", "n", "n", "e", "r">>, <<"b", "o", "o", "t", ".", "p", "n", "g">>>> :> File(3, 2024, 4, TRUE))]

\* a tree with names that contain "organized" and an ignore entry
SubstringTree ==
    [dirs  |-> {Root, SourceDir, <<<<"d">>, <<"e", "c", "o", "s", "y", "s", "t", "e", "m">>>>},
     files |-> (<<<<"d">>, <<"r", "e", "o", "r", "g", "a", "n", "i", "z", "e", "d", ".", "t", "x", "t">>>> :> File(1, 2024, 6, TRUE))
            @@ (<<<<"d">>, <<"e", "c", "o", "s", "y", "s", "t", "e", "m">>, <<"p", "l", "a", "n", ".", "t", "x", "t">>>> :> File(2, 2024, 6, TRUE))]

Trees == {FlatTree, NestedTree, OrganizedTree, SystemTree, SubstringTree}

\* the source_path arguments organize_directory is called with
SourceArgs == {SourceDir, MissingDir}

\* FileOrganizer.__init__: self.stats
ZeroStats ==
    [files_processed |-> 0, files_moved |-> 0, directories_created |-> 0, errors |-> 0]

NoCall ==
    [called |-> FALSE, file |-> <<>>, raised |-> FALSE, category |-> <<>>,
     subfolder |-> <<>>, dest_folder |-> <<>>, dest_path |-> <<>>, chose |-> FALSE,
     tries |-> 0, entries |-> 0, errors_before |-> 0]

NoMap == [k \in {} |-> <<>>]

\* no command line: the organizer is used as a library
NoArgs ==
    [given |-> FALSE, directory |-> <<>>, execute |-> FALSE, recursive |-> FALSE,
     analyze |-> FALSE, backup |-> FALSE, no_date_folders |-> FALSE]

\* completed: organize_directory calls that ran their loop to its end;
\* missing: calls that returned at the missing source; gathered: the length of
\* files_to_process of the latest call; stats0: self.stats when it began;
\* organized: per source file, the times it was copied or moved;
\* constructed: the FileOrganizer objects made; mains: the runs of main();
\* dirs0: the directories when the latest call began
NoHist ==
    [completed |-> 0, missing |-> 0, gathered |-> 0, stats0 |-> ZeroStats,
     organized |-> [p \in {} |-> 0], constructed |-> 0, mains |-> 0,
     dirs0 |-> {}]

\* the times a source file was copied or moved so far
times_organized(h, p) == IF p \in DOMAIN h.organized THEN h.organized[p] ELSE 0

\* a bug: "if not source.exists()" is missing
source_exists_always(d, f, source) == TRUE

\* source.exists()
source_exists(d, f, source) == exists(d, f, source)

\* the state after FileOrganizer(config_file): the configuration is loaded and
\* the counters are zero
Init ==
    /\ \E rules \in RuleTables, dry_run, create_date_folders, backup_enabled \in BOOLEAN :
          config = [rules |-> rules,
                    ignore_folders |-> DefaultIgnoreFolders,
                    dry_run |-> dry_run,
                    create_date_folders |-> create_date_folders,
                    backup_enabled |-> backup_enabled]
    /\ stats = ZeroStats
    /\ \E tree \in Trees : dirs = tree.dirs /\ files = tree.files
    /\ pc = "idle"
    /\ recursive = FALSE
    /\ folder_map = NoMap
    /\ queue = <<>>
    /\ runs = 0
    /\ last = NoCall
    /\ cl_name = <<>>
    /\ cl_result = <<>>
    /\ config_file = JsonFile(json_dump(config))
    /\ args = NoArgs
    /\ hist = [NoHist EXCEPT !.constructed = 1]
    /\ cleanup = NoTool
    /\ generator = NoTool

\* organize_directory(source_path, recursive) on a path that does not exist:
\* "does not exist!" is printed and the call returns
OrganizeDirectoryMissing(source_path) ==
    /\ pc = "idle"
    /\ runs < MaxRuns
    /\ ~source_exists(dirs, files, source_path)
    /\ runs' = runs + 1
    /\ hist' = [hist EXCEPT !.missing = @ + 1]
    /\ UNCHANGED other_tools
    /\ UNCHANGED <<config, stats, dirs, files, pc, recursive, folder_map, queue,
                   last, cl_name, cl_result, config_file, args>>

\* organize_directory(source_path, recursive) up to its loop: the folder
\* structure is created and the files to process are gathered
OrganizeDirectoryBegin(cfg, st, h, source_path, is_recursive, pc_raised) ==
    LET made == create_organized_structure(cfg, dirs, files,
                                           st.directories_created, source_path)
        found == IF is_recursive
                 THEN walk(cfg.ignore_folders, made.dirs, files, source_path)
                 ELSE iterdir_files(files, source_path)
    IN  /\ dirs' = made.dirs
        /\ stats' = [st EXCEPT !.directories_created = made.created]
        /\ IF made.ok
           THEN /\ pc' = "running"
                /\ recursive' = is_recursive
                /\ folder_map' = made.folder_map
                /\ queue' \in listing_orders(found, is_recursive)
                /\ runs' = runs
                /\ hist' = [h EXCEPT !.gathered = Cardinality(found),
                                     !.stats0 = st, !.dirs0 = dirs]
           ELSE \* a mkdir raised: the exception leaves organize_directory
                /\ pc' = pc_raised
                /\ runs' = runs + 1
                /\ hist' = [h EXCEPT !.gathered = 0, !.stats0 = st, !.dirs0 = dirs]
                /\ UNCHANGED <<recursive, folder_map, queue>>

\* organize_directory(source_path, recursive) called on an organizer
OrganizeDirectoryStart(source_path, is_recursive) ==
    /\ pc = "idle"
    /\ runs < MaxRuns
    /\ source_exists(dirs, files, source_path)
    /\ OrganizeDirectoryBegin(config, stats, hist, source_path, is_recursive, "idle")
    /\ UNCHANGED other_tools
    /\ UNCHANGED <<config, files, last, cl_name, cl_result, config_file, args>>

\* a bug: organize_file switches the rest of the run to a dry run
config_after_file_goes_dry(cfg) == [cfg EXCEPT !.dry_run = TRUE]

\* self.config after organize_file and the except clause: neither assigns to
\* it or to one of its entries
config_after_file(cfg) == cfg

\* one round of "for file_path in files_to_process", with its try/except
OrganizeFileStep ==
    /\ pc = "running"
    /\ queue # <<>>
    /\ LET file_path == Head(queue)
           r == organize_file(config, folder_map, dirs, files, file_path)
       IN  /\ dirs' = r.dirs
           /\ files' = r.files
           /\ last' = [called |-> TRUE, file |-> file_path, raised |-> r.raised,
                       category |-> r.category, subfolder |-> r.subfolder,
                       dest_folder |-> r.dest_folder, dest_path |-> r.dest_path,
                       chose |-> r.chose, tries |-> r.tries, entries |-> r.entries,
                       errors_before |-> stats.errors]
           /\ IF r.hung
              THEN /\ pc' = "hung"
                   /\ UNCHANGED <<stats, queue>>
              ELSE IF r.raised
              THEN /\ stats' = [stats EXCEPT !.errors = @ + 1,
                                             !.files_moved = @ + r.moved]
                   /\ queue' = on_exception(queue)
                   /\ pc' = "running"
              ELSE /\ stats' = [stats EXCEPT !.files_processed = @ + 1,
                                             !.files_moved = @ + r.moved]
                   /\ queue' = Tail(queue)
                   /\ pc' = "running"
           /\ hist' = IF r.moved = 1
                      THEN [hist EXCEPT !.organized =
                               (file_path :> (times_organized(hist, file_path) + 1)) @@ @]
                      ELSE hist
    /\ config' = config_after_file(config)
    /\ UNCHANGED other_tools
    /\ UNCHANGED <<recursive, folder_map, runs, cl_name, cl_result,
                   config_file, args>>

\* the loop is over: print_summary, and organize_directory returns
OrganizeDirectoryFinish ==
    /\ pc = "running"
    /\ queue = <<>>
    /\ pc' = IF args.given THEN "exit" ELSE "idle"
    /\ folder_map' = NoMap
    /\ runs' = runs + 1
    /\ hist' = [hist EXCEPT !.completed = @ + 1]
    /\ UNCHANGED other_tools
    /\ UNCHANGED <<config, stats, dirs, files, recursive, queue, last,
                   cl_name, cl_result, config_file, args>>

Next ==
    \/ \E source_path \in SourceArgs : OrganizeDirectoryMissing(source_path)
    \/ \E source_path \in SourceArgs, is_recursive \in BOOLEAN :
          OrganizeDirectoryStart(source_path, is_recursive)
    \/ OrganizeFileStep
    \/ OrganizeDirectoryFinish

Spec == Init /\ [][Next]_vars


----------------------------------------------------------------------------
(* The program from its start: the configuration file is loaded by          *)
(* FileOrganizer(config_file), called by a user of the class or by main()   *)

MaxConstructs == 2
MaxMains == 1

\* self.config before any FileOrganizer exists
NoConfig ==
    [rules |-> <<>>, ignore_folders |-> <<>>, dry_run |-> FALSE,
     create_date_folders |-> FALSE, backup_enabled |-> FALSE]

\* a configuration file written by hand: the keys in another order than
\* save_config writes them, one folder to ignore, every switch changed
HandWrittenDoc ==
    JObj(<<JMember(<<"d", "r", "y", "_", "r", "u", "n">>, JBool(TRUE)),
           JMember(<<"b", "a", "c", "k", "u", "p", "_", "e", "n", "a", "b", "l", "e", "d">>, JBool(FALSE)),
           JMember(<<"i", "g", "n", "o", "r", "e", "_", "f", "o", "l", "d", "e", "r", "s">>, dump_list(<<<<"o", "r", "g", "a", "n", "i", "z", "e", "d">>>>)),
           JMember(<<"r", "u", "l", "e", "s">>,
                   JObj(<<JMember(<<"i", "m", "a", "g", "e", "s", "_", "r", "a", "w">>, dump_rule(CustomRules[2])),
                          JMember(<<"i", "m", "a", "g", "e", "s">>, dump_rule(CustomRules[1]))>>)),
           JMember(<<"c", "r", "e", "a", "t", "e", "_", "d", "a", "t", "e", "_", "f", "o", "l", "d", "e", "r", "s">>, JBool(FALSE))>>)

\* the configuration files found at the start
ConfigFiles ==
    {AbsentFile, MalformedFile, JsonFile(HandWrittenDoc)}
    \cup {JsonFile(json_dump([DefaultConfig EXCEPT !.dry_run = dry_run,
                                                  !.create_date_folders = date,
                                                  !.backup_enabled = backup])) :
            dry_run \in BOOLEAN, date \in BOOLEAN, backup \in BOOLEAN}

\* the command lines of main()
CommandLines ==
    [given : {TRUE}, directory : SourceArgs, execute : BOOLEAN, recursive : BOOLEAN,
     analyze : BOOLEAN, backup : BOOLEAN, no_date_folders : BOOLEAN]

InitProgram ==
    /\ config_file \in ConfigFiles
    /\ config = NoConfig
    /\ stats = ZeroStats
    /\ dirs = FlatTree.dirs
    /\ files = FlatTree.files
    /\ pc = "start"
    /\ recursive = FALSE
    /\ folder_map = NoMap
    /\ queue = <<>>
    /\ runs = 0
    /\ last = NoCall
    /\ cl_name = <<>>
    /\ cl_result = <<>>
    /\ args = NoArgs
    /\ hist = NoHist
    /\ cleanup = NoTool
    /\ generator = NoTool

\* FileOrganizer(config_file): __init__ with load_config
Construct ==
    /\ pc \in {"start", "idle"}
    /\ hist.constructed < MaxConstructs
    /\ LET loaded == load_config(config_file)
       IN  /\ config' = loaded.config
           /\ config_file' = loaded.file
    /\ stats' = ZeroStats
    /\ pc' = "idle"
    /\ hist' = [hist EXCEPT !.constructed = @ + 1]
    /\ UNCHANGED other_tools
    /\ UNCHANGED <<dirs, files, recursive, folder_map, queue, runs, last,
                   cl_name, cl_result, args>>

\* main(): "Update config based on arguments"
main_config(cfg, a) ==
    [cfg EXCEPT !.dry_run = IF ~a.execute THEN TRUE ELSE @,
                !.backup_enabled = IF a.backup THEN TRUE ELSE @,
                !.create_date_folders = IF a.no_date_folders THEN FALSE ELSE @]

\* main() with the command line a, up to the loop of organize_directory
Main(a) ==
    /\ pc \in {"start", "exit"}
    /\ hist.mains < MaxMains
    /\ runs < MaxRuns
    /\ LET loaded == load_config(config_file)
           cfg == main_config(loaded.config, a)
           h == [hist EXCEPT !.mains = @ + 1]
       IN  /\ config' = cfg
           /\ config_file' = loaded.file
           /\ args' = a
           /\ IF a.analyze
              THEN \* analyze_directory reads the tree and prints
                   /\ pc' = "exit"
                   /\ stats' = ZeroStats
                   /\ hist' = h
                   /\ UNCHANGED <<dirs, recursive, folder_map, queue, runs>>
              ELSE IF ~source_exists(dirs, files, a.directory)
              THEN /\ pc' = "exit"
                   /\ stats' = ZeroStats
                   /\ runs' = runs + 1
                   /\ hist' = [h EXCEPT !.missing = @ + 1]
                   /\ UNCHANGED <<dirs, recursive, folder_map, queue>>
              ELSE OrganizeDirectoryBegin(cfg, ZeroStats, h, a.directory,
                                          a.recursive, "exit")
    /\ UNCHANGED other_tools
    /\ UNCHANGED <<files, last, cl_name, cl_result>>

NextProgram ==
    \/ Construct
    \/ \E a \in CommandLines : Main(a)
    \/ Next

SpecProgram == InitProgram /\ [][NextProgram]_vars

----------------------------------------------------------------------------
(* The classifier on its own: get_file_category applied to file names *)

FileStems == {<<"s", "c", "r", "e", "e", "n", "s", "h", "o", "t">>, <<"S", "c", "r", "e", "e", "n", "_", "S", "h", "o", "t">>, <<"p", "h", "o", "t", "o", "_", "i", "c", "o", "n">>, <<"r", "a", "w", "_", "s", "h", "o", "t">>, <<"r", "a", "w">>, <<"R", "A", "W">>,
              <<"n", "o", "t", "e", "s">>, <<"x">>, <<".", "h", "i", "d", "d", "e", "n">>}

FileExts == {<<".", "p", "n", "g">>, <<".", "P", "N", "G">>, <<".", "p", "d", "f">>, <<".", "c", "r", "2">>, <<".", "z", "i", "p">>, <<".", "q">>, <<>>}

FileNames == {s \o e : s \in FileStems, e \in FileExts}

InitClassify ==
    /\ \E rules \in RuleTables :
          config = [rules |-> rules,
                    ignore_folders |-> DefaultIgnoreFolders,
                    dry_run |-> FALSE,
                    create_date_folders |-> TRUE,
                    backup_enabled |-> TRUE]
    /\ stats = ZeroStats
    /\ dirs = {Root}
    /\ files = NoMap
    /\ pc = "idle"
    /\ recursive = FALSE
    /\ folder_map = NoMap
    /\ queue = <<>>
    /\ runs = 0
    /\ last = NoCall
    /\ cl_name = <<>>
    /\ cl_result = <<>>
    /\ config_file = JsonFile(json_dump(config))
    /\ args = NoArgs
    /\ hist = [NoHist EXCEPT !.constructed = 1]
    /\ cleanup = NoTool
    /\ generator = NoTool

\* get_file_category(file_path) for a file of the given name
Classify(name) ==
    /\ cl_name' = name
    /\ cl_result' = get_file_category(config.rules, name)
    /\ UNCHANGED other_tools
    /\ UNCHANGED <<config, stats, dirs, files, pc, recursive, folder_map, queue,
                   runs, last, config_file, args, hist>>

NextClassify == \E name \in FileNames : Classify(name)

SpecClassify == InitClassify /\ [][NextClassify]_vars

----------------------------------------------------------------------------
(* Properties of the classifier, under SpecClassify *)

Min(S) == CHOOSE i \in S : \A j \in S : i <= j

\* the extension and the base name the classifier compares
cl_ext == lower(suffix(cl_name))
cl_base == lower(stem(cl_name))

\* the categories whose extension list holds the extension of the file
ListingCategories ==
    {i \in 1..Len(config.rules) : list_in(cl_ext, config.rules[i].extensions)}

\* the subfolders of category i with a pattern that matches the file
MatchingSubfolders(i) ==
    IF config.rules[i].has_subfolders
    THEN {j \in 1..Len(config.rules[i].subfolders) :
             subfolder_matches(config.rules[i].subfolders[j], cl_base, cl_ext)}
    ELSE {}

\* C3 as stated: for every (category, subfolder) of the configuration such
\* that the extension of the file is in the category's extension list and the
\* file matches a pattern of the subfolder, get_file_category returns that pair.
C3_EveryMatchingPairIsReturned ==
    cl_result # <<>> =>
        \A i \in ListingCategories : \A j \in MatchingSubfolders(i) :
            cl_result = <<config.rules[i].name, config.rules[i].subfolders[j].name>>

\* C3 amended: get_file_category returns the pair (category, subfolder) whose
\* category lists the extension and whose subfolder matches the file, provided
\* that no earlier category lists the extension and no earlier subfolder of
\* the category matches the file.
C3_FirstMatchingPairIsReturned ==
    cl_result # <<>> =>
        \A i \in ListingCategories : \A j \in MatchingSubfolders(i) :
            ((\A i2 \in ListingCategories : i <= i2)
                /\ (\A j2 \in MatchingSubfolders(i) : j <= j2))
            => cl_result = <<config.rules[i].name, config.rules[i].subfolders[j].name>>

\* a file that matches two subfolders of its category has been classified
C3_Witness ==
    /\ cl_result # <<>>
    /\ \E i \in ListingCategories :
          /\ i = Min(ListingCategories)
          /\ Cardinality(MatchingSubfolders(i)) >= 2
          /\ cl_result[2] = config.rules[i].subfolders[Min(MatchingSubfolders(i))].name

C5_FirstMatchWins ==
    (cl_result # <<>> /\ ListingCategories # {}) =>
        LET i == Min(ListingCategories)
        IN  /\ cl_result[1] = config.rules[i].name
            /\ cl_result[2] = IF MatchingSubfolders(i) = {} THEN <<>>
                              ELSE config.rules[i].subfolders[
                                       Min(MatchingSubfolders(i))].name

\* two categories list the extension, the first has no matching subfolder,
\* and the file has been classified into the first with no subfolder
C5_Witness ==
    /\ cl_result # <<>>
    /\ Cardinality(ListingCategories) >= 2
    /\ MatchingSubfolders(Min(ListingCategories)) = {}
    /\ cl_result = <<config.rules[Min(ListingCategories)].name, <<>>>>

----------------------------------------------------------------------------
(* Properties of organize_directory and organize_file, under Spec *)

\* the organized root of the source directory
OrganizedRoot == organized_path(SourceDir)

\* a step of the loop of organize_directory is about to process Head(queue)
AtFile == pc = "running" /\ queue # <<>>

\* the destination dest_folder / file_path.name of the file being processed
PrimaryDest == path_join(last'.dest_folder, path_name(Head(queue)))

\* the name stem_k + extension
Suffixed(name, k) == stem(name) \o <<"_">> \o str_int(k) \o suffix(name)

\* C1: no step overwrites or removes a file under the organized root; when an
\* execute step finds the destination dest_folder/name taken, the file is
\* stored under a numerically suffixed name and the entry that held the name
\* is as it was.
C1_NoOverwrite ==
    [][/\ \A p \in DOMAIN files :
              is_prefix(OrganizedRoot, p) => (p \in DOMAIN files' /\ files'[p] = files[p])
       /\ (AtFile /\ ~config.dry_run /\ ~last'.raised
             /\ exists(dirs', files, PrimaryDest))
          => /\ last'.dest_path # PrimaryDest
             /\ \E k \in 1..MaxTries :
                   last'.dest_path = path_join(last'.dest_folder,
                                               Suffixed(path_name(Head(queue)), k))
             /\ ~exists(dirs', files, last'.dest_path)
             /\ last'.dest_path \in DOMAIN files'
             /\ files'[last'.dest_path] = files[Head(queue)]
             /\ exists(dirs', files', PrimaryDest)]_vars

\* an execute run has stored a file whose name was taken under another name
C1_Witness ==
    /\ last.called /\ ~last.raised /\ ~config.dry_run
    /\ last.tries >= 2
    /\ last.dest_path \in DOMAIN files
    /\ path_join(last.dest_folder, path_name(last.file)) \in DOMAIN files
    /\ files[last.dest_path].content
          # files[path_join(last.dest_folder, path_name(last.file))].content

\* C2: with dry_run set, no step of organize_directory changes the file
\* system: the directories and the files stay as they are.
C2_DryRunMutatesNothing ==
    [][config.dry_run => (dirs' = dirs /\ files' = files)]_vars

\* a dry run with date folders has gone through its files and returned
C2_Witness ==
    /\ config.dry_run /\ config.create_date_folders
    /\ pc = "idle" /\ runs >= 1
    /\ last.called /\ ~last.raised
    /\ stats.files_processed >= 2

\* C6: when the processing of a file raises, the error counter goes up by
\* one, the file is not counted as processed, and the loop goes on with the
\* remaining files.
C6_ExceptionIsCountedAndRunContinues ==
    [][(AtFile /\ last'.raised)
          => /\ stats'.errors = stats.errors + 1
             /\ stats'.files_processed = stats.files_processed
             /\ pc' = "running"
             /\ queue' = Tail(queue)]_vars

\* a file has been organized after an earlier file of the run had raised
C6_Witness ==
    /\ last.called /\ ~last.raised /\ ~config.dry_run
    /\ last.errors_before >= 1
    /\ stats.errors = last.errors_before
    /\ last.dest_path \in DOMAIN files

\* C7 as stated: in execute mode every gathered file that can be read is
\* copied or moved to its destination and counted in files_moved, and is not
\* counted as an error.
C7_EveryGatheredFileIsOrganized ==
    [][(AtFile /\ ~config.dry_run /\ files[Head(queue)].readable)
          => /\ ~last'.raised
             /\ stats'.files_moved = stats.files_moved + 1
             /\ stats'.errors = stats.errors
             /\ last'.dest_path \in DOMAIN files'
             /\ files'[last'.dest_path] = files[Head(queue)]]_vars

\* the name the collision policy prescribes in dest_folder for a file name
PrescribedName(d, f, folder, name) ==
    IF ~exists(d, f, path_join(folder, name)) THEN name
    ELSE Suffixed(name,
            Min({k \in 1..(MaxTries + 1) :
                    ~exists(d, f, path_join(folder, Suffixed(name, k)))}))

\* C8: the destination name is the name of the file when the destination
\* folder has no entry of that name, and otherwise stem_k+extension for the
\* smallest k >= 1 for which the folder has no entry of that name.
C8_SmallestFreeSuffix ==
    [][(AtFile /\ last'.chose)
          => last'.dest_path =
                path_join(last'.dest_folder,
                          PrescribedName(dirs', files, last'.dest_folder,
                                         path_name(Head(queue))))]_vars

\* a file has been stored as stem_2 because its name and stem_1 were taken
C8_Witness ==
    /\ last.called /\ ~last.raised /\ ~config.dry_run
    /\ last.tries = 3
    /\ path_name(last.dest_path) = Suffixed(path_name(last.file), 2)
    /\ last.dest_path \in DOMAIN files

\* C9: the collision loop ends, after at most n + 1 candidate names for a
\* destination folder of n entries.
C9_LoopBoundedByEntries ==
    /\ pc # "hung"
    /\ last.tries > 0 => (last.chose /\ last.tries <= last.entries + 1)

\* the loop has tried n + 1 names in a folder of n >= 1 entries
C9_Witness ==
    last.chose /\ last.entries >= 1 /\ last.tries = last.entries + 1

\* the folder of a category: rules[category]["folder"], "Miscellaneous" for misc
CategoryFolder(category) ==
    IF \E i \in 1..Len(config.rules) : config.rules[i].name = category
    THEN config.rules[CHOOSE i \in 1..Len(config.rules) :
                          config.rules[i].name = category].folder
    ELSE <<"M", "i", "s", "c", "e", "l", "l", "a", "n", "e", "o", "u", "s">>

\* organized-root / category folder / [subfolder] / [YYYY-MM]
PrescribedFolder(category, subfolder, mtime) ==
    LET p1 == path_join(OrganizedRoot, CategoryFolder(category))
        p2 == IF subfolder # <<>> THEN path_join(p1, subfolder) ELSE p1
    IN  IF config.create_date_folders THEN path_join(p2, strftime_Y_m(mtime)) ELSE p2

\* C10 as stated: the destination directory is organized-root / category
\* folder / subfolder (when not empty) / YYYY-MM of the modification time
\* (exactly when create_date_folders is set), with Miscellaneous for misc.
C10_DestinationFolder ==
    [][(AtFile /\ last'.chose)
          => last'.dest_folder =
                PrescribedFolder(last'.category, last'.subfolder,
                                 files[Head(queue)].mtime)]_vars

----------------------------------------------------------------------------
(* Repeated runs, under Spec *)

\* the files outside the organized root
SourceFiles == {p \in DOMAIN files : ~is_prefix(OrganizedRoot, p)}

\* an execute configuration that copies, and one that moves
CopyMode == ~config.dry_run /\ config.backup_enabled
MoveMode == ~config.dry_run /\ ~config.backup_enabled

\* C11: with copy semantics no step removes or changes a file at its original
\* path; with move semantics a file that a step organizes is gone from its
\* original path, and once a non-recursive run has completed without errors
\* a second non-recursive run over the same directory gathers no file and so
\* moves nothing.
C11_CopyKeepsMoveEmpties ==
    [][/\ config.backup_enabled =>
              \A p \in SourceFiles : p \in DOMAIN files' /\ files'[p] = files[p]
       /\ (MoveMode /\ AtFile /\ last'.called /\ ~last'.raised) =>
              Head(queue) \notin DOMAIN files'
       /\ (MoveMode /\ pc = "idle" /\ hist.completed >= 1 /\ stats.errors = 0
           /\ ~recursive /\ pc' = "running" /\ ~recursive') =>
              (queue' = <<>> /\ iterdir_files(files', SourceDir) = {})]_vars

\* a second, non-recursive run in move mode has gathered nothing after a
\* first run that moved files
C11_Witness ==
    /\ MoveMode
    /\ hist.completed = 1
    /\ pc = "running"
    /\ ~recursive
    /\ hist.gathered = 0
    /\ stats.errors = 0
    /\ stats.files_moved >= 2

\* the files under the organized root that hold the content of the file p
Copies(p) ==
    {q \in DOMAIN files : is_prefix(OrganizedRoot, q) /\ files[q].content = files[p].content}

\* name, name_1, ..., name_{n-1}
FirstNames(name, n) ==
    {IF j = 0 THEN name ELSE Suffixed(name, j) : j \in 0..(n - 1)}

\* the names a file called name can be stored under
NameSeries(name) == FirstNames(name, MaxTries + 1)

\* the entries of the folder that hold a name of the series without being a
\* copy of p
Competitors(p, folder) ==
    {q \in (DOMAIN files \cup dirs) \ Copies(p) :
        /\ q # <<>>
        /\ path_parent(q) = folder
        /\ path_name(q) \in NameSeries(path_name(p))}

\* a run after a completed one creates the folder structure
LaterStructure == ~config.dry_run /\ hist.completed >= 1 /\ pc = "idle" /\ pc' = "running"

\* the copies of each source file are as many as the times it was organized,
\* they lie in one folder under names of the series, and without competitors
\* they bear the first names of the series
CopiesAccumulate ==
    \A p \in SourceFiles :
       LET n == times_organized(hist, p)
       IN  /\ Cardinality(Copies(p)) = n
           /\ \A q \in Copies(p) : path_name(q) \in NameSeries(path_name(p))
           /\ \A q1, q2 \in Copies(p) : path_parent(q1) = path_parent(q2)
           /\ \A q \in Copies(p) :
                 Competitors(p, path_parent(q)) = {} =>
                    {path_name(c) : c \in Copies(p)} = FirstNames(path_name(p), n)

\* C12: in execute mode with copy semantics every run that organizes a source
\* file adds one copy of it (k copies after k such runs), all in one
\* destination folder under distinct names out of name, name_1, name_2, ...;
\* these are name, name_1, ..., name_{k-1} when no other entry of the folder
\* holds a name of that series; the folder creation of a run that follows a
\* completed one leaves the directory set unchanged.
C12_CopiesAccumulate ==
    [][/\ CopyMode => CopiesAccumulate'
       /\ LaterStructure => dirs' = dirs]_vars

\* two completed copy runs have left name and name_1 of a source file
C12_Witness ==
    /\ CopyMode
    /\ pc = "idle"
    /\ hist.completed = 2
    /\ \E p \in SourceFiles :
          /\ times_organized(hist, p) = 2
          /\ \E folder \in dirs :
                Copies(p) = {path_join(folder, path_name(p)),
                             path_join(folder, Suffixed(path_name(p), 1))}

\* C12 as stated: after k completed copy runs each source file that every
\* run organized has its copies at name, name_1, ..., name_{k-1} of one folder.
C12_KthCopyIsNamedKMinus1 ==
    (CopyMode /\ pc = "idle" /\ hist.completed >= 1) =>
        \A p \in SourceFiles :
           times_organized(hist, p) = hist.completed =>
              \E folder \in dirs :
                 Copies(p) = {path_join(folder, nm) :
                                 nm \in FirstNames(path_name(p), hist.completed)}

----------------------------------------------------------------------------
(* The files a run leaves out, under Spec *)

\* the file p lies under the organized root
UnderOrganizedRoot(p) == is_prefix(OrganizedRoot, p)

\* the folder name, in lower case, contains an entry of ignore_folders
MatchesIgnoreFolders(name) ==
    \E i \in 1..Len(config.ignore_folders) :
        str_in(config.ignore_folders[i], lower(name))

\* the file p lies in or below a folder of the source directory that matches
\* the ignore-folders
InIgnoredFolder(p) ==
    /\ is_prefix(SourceDir, p)
    /\ \E i \in (Len(SourceDir) + 1)..(Len(p) - 1) : MatchesIgnoreFolders(p[i])

\* C13: a recursive run gathers, and so processes, no file under the
\* organized root and no file in or below a folder matching the
\* ignore-folders; no step of a run changes, removes or counts such a file.
C13_RecursiveSkipsOrganizedAndIgnored ==
    [][/\ (pc' = "running" /\ recursive') =>
              \A i \in 1..Len(queue') :
                  ~UnderOrganizedRoot(queue'[i]) /\ ~InIgnoredFolder(queue'[i])
       /\ (AtFile /\ recursive /\ last'.called) =>
              /\ last'.file = Head(queue)
              /\ ~UnderOrganizedRoot(last'.file) /\ ~InIgnoredFolder(last'.file)
       /\ \A p \in DOMAIN files :
              (UnderOrganizedRoot(p) \/ InIgnoredFolder(p)) =>
                  /\ p \in DOMAIN files' /\ files'[p] = files[p]
                  /\ times_organized(hist', p) = 0]_vars

\* a recursive run has processed its files and left those of an ignored
\* folder where they were
C13_Witness ==
    /\ pc = "running"
    /\ recursive
    /\ queue = <<>>
    /\ last.called
    /\ stats.files_processed >= 1
    /\ \E p, q \in DOMAIN files :
          /\ InIgnoredFolder(p) /\ Len(p) = Len(SourceDir) + 2
          /\ InIgnoredFolder(q) /\ Len(q) > Len(SourceDir) + 2

----------------------------------------------------------------------------
(* A source directory that does not exist, under Spec *)

\* a call of organize_directory has returned at the missing source
ReturnedAtMissingSource == hist'.missing = hist.missing + 1

\* C14: organize_directory on a source directory that does not exist returns
\* before any mutation: the directories and files are as they were, nothing
\* is ever created at or below the missing path, no file is classified and
\* the four counters keep their values.
C14_MissingSourceMutatesNothing ==
    [][/\ \A p \in dirs' \cup DOMAIN files' : ~is_prefix(MissingDir, p)
       /\ ReturnedAtMissingSource =>
              /\ dirs' = dirs /\ files' = files
              /\ stats' = stats
              /\ last' = last /\ hist'.organized = hist.organized
              /\ pc' = pc /\ queue' = queue /\ folder_map' = folder_map]_vars

\* a call on the missing directory has returned after a run that counted
C14_Witness ==
    /\ hist.missing >= 1
    /\ hist.completed >= 1
    /\ stats.files_processed >= 1
    /\ stats.directories_created >= 1
    /\ pc = "idle"

----------------------------------------------------------------------------
(* The configuration file, under SpecProgram *)

\* a step in which FileOrganizer(config_file) is constructed by a user of the
\* class, and one in which main() constructs it
Constructed == hist'.constructed = hist.constructed + 1
MainStarted == hist'.mains = hist.mains + 1

C16_SaveThenLoadIsDefault ==
    [][/\ (config_file.state = "absent" /\ (Constructed \/ MainStarted)) =>
              /\ config_file'.state = "json"
              /\ config_file'.doc = json_dump(DefaultConfig)
              /\ config_file'.writes = 1
       /\ (config_file.writes >= 1 /\ Constructed) =>
              /\ config' = DefaultConfig
              /\ \A i \in 1..Len(DefaultRules) : config'.rules[i].name = DefaultRules[i].name
       /\ config_file.state # "absent" => config_file' = config_file]_vars

\* the second FileOrganizer has loaded the file the first one wrote
C16_Witness ==
    /\ config_file.state = "json"
    /\ config_file.writes = 1
    /\ hist.constructed = 2
    /\ config = DefaultConfig
    /\ pc = "idle"

----------------------------------------------------------------------------
(* The command line, under SpecProgram *)

\* C17 as stated: a run started by main() is a dry run exactly when --execute
\* is not given, and live exactly when it is given, whatever the
\* configuration file holds.
C17_LiveIffExecute ==
    (args.given /\ ~args.analyze) => (config.dry_run <=> ~args.execute)

\* the configuration file holds the default configuration
DefaultConfigFile ==
    config_file.state = "json" /\ config_file.doc = json_dump(DefaultConfig)

\* C18 as stated: started by main() with the default configuration in
\* execute mode, each organized file is copied and its source remains when
\* --backup is given, and is moved and its source is gone when it is not.
C18_BackupSelectsCopy ==
    [][(/\ args.given /\ args.execute /\ DefaultConfigFile
        /\ AtFile /\ last'.called /\ ~last'.raised) =>
            /\ last'.dest_path \in DOMAIN files'
            /\ files'[last'.dest_path] = files[Head(queue)]
            /\ (Head(queue) \in DOMAIN files') <=> args.backup]_vars

----------------------------------------------------------------------------
(* The counters over several calls, under Spec *)

\* the loop of an organize_directory call is over and print_summary is next
AtSummary == pc = "running" /\ queue = <<>>

\* C19 as stated: the counters printed at the end of an organize_directory
\* call describe that call only, also for a later call on the same
\* FileOrganizer: they were counted from zero, and the files processed and the
\* errors add up to the files this call gathered.
C19_StatsCoverOneCall ==
    AtSummary =>
        /\ hist.stats0 = ZeroStats
        /\ stats.files_processed + stats.errors = hist.gathered
        /\ stats.files_moved <= hist.gathered

----------------------------------------------------------------------------
(* The example of the default rules, under Spec *)

\* the file screenshot_2024.png directly in the source directory, and the
\* place the default rules give it when it was last modified in March 2024
ScreenshotFile == path_join(SourceDir, <<"s", "c", "r", "e", "e", "n", "s", "h", "o", "t", "_", "2", "0", "2", "4", ".", "p", "n", "g">>)
ScreenshotDest ==
    <<<<"d">>, <<"o", "r", "g", "a", "n", "i", "z", "e", "d">>, <<"I", "m", "a", "g", "e", "s">>, <<"s", "c", "r", "e", "e", "n", "s", "h", "o", "t", "s">>, <<"2", "0", "2", "4", "-", "0", "3">>, <<"s", "c", "r", "e", "e", "n", "s", "h", "o", "t", "_", "2", "0", "2", "4", ".", "p", "n", "g">>>>

\* C20: with the default rules screenshot_2024.png directly in the source
\* directory classifies as (images, screenshots), and in execute mode with
\* date folders and no entry of that name in the destination folder it ends up
\* at organized/Images/screenshots/<YYYY-MM of its modification
\* time>/screenshot_2024.png, with its content.
C20_ScreenshotExample ==
    [][(/\ AtFile /\ Head(queue) = ScreenshotFile /\ last'.called
        /\ config.rules = DefaultRules
        /\ files[ScreenshotFile].mtime = [year |-> 2024, month |-> 3]) =>
            /\ last'.category = <<"i", "m", "a", "g", "e", "s">>
            /\ last'.subfolder = <<"s", "c", "r", "e", "e", "n", "s", "h", "o", "t", "s">>
            /\ (/\ ~config.dry_run /\ config.create_date_folders
                /\ ~exists(dirs, files, ScreenshotDest)) =>
                   /\ ~last'.raised
                   /\ last'.dest_path = ScreenshotDest
                   /\ ScreenshotDest \in DOMAIN files'
                   /\ files'[ScreenshotDest].content = files[ScreenshotFile].content]_vars

\* screenshot_2024.png has been stored in the date folder of March 2024
C20_Witness ==
    /\ config.rules = DefaultRules
    /\ ~config.dry_run /\ config.create_date_folders
    /\ last.called /\ last.file = ScreenshotFile /\ ~last.raised
    /\ last.category = <<"i", "m", "a", "g", "e", "s">> /\ last.subfolder = <<"s", "c", "r", "e", "e", "n", "s", "h", "o", "t", "s">>
    /\ last.dest_path = ScreenshotDest
    /\ ScreenshotDest \in DOMAIN files
    /\ stats.files_moved = 1

----------------------------------------------------------------------------
(* Letter case, under SpecClassify *)

\* the strings a and b differ at most in the case of their letters
SameUpToCase(a, b) ==
    /\ Len(a) = Len(b)
    /\ \A i \in 1..Len(a) :
          \/ a[i] = b[i]
          \/ \E k \in 1..Len(UpperChars) :
                {a[i], b[i]} = {UpperChars[k], LowerChars[k]}

\* the rule table has its extensions and patterns in lower case
LowerCaseRules ==
    \A i \in 1..Len(config.rules) :
       /\ \A e \in 1..Len(config.rules[i].extensions) :
             \A c \in 1..Len(config.rules[i].extensions[e]) :
                ~list_in(config.rules[i].extensions[e][c], UpperChars)
       /\ \A j \in 1..Len(config.rules[i].subfolders) :
             \A q \in 1..Len(config.rules[i].subfolders[j].patterns) :
                \A c \in 1..Len(config.rules[i].subfolders[j].patterns[q]) :
                   ~list_in(config.rules[i].subfolders[j].patterns[q][c], UpperChars)

\* C21: with extensions and patterns in lower case, every file name that
\* differs from the classified one only in the case of letters of its base
\* name or extension gets the same (category, subfolder).
C21_CaseInsensitive ==
    (cl_result # <<>> /\ LowerCaseRules) =>
        \A other \in FileNames :
            SameUpToCase(other, cl_name) =>
                get_file_category(config.rules, other) = cl_result

\* RAW.PNG is classified like raw.png
C21_Witness ==
    /\ LowerCaseRules
    /\ cl_name = <<"R", "A", "W", ".", "P", "N", "G">>
    /\ cl_result # <<MISC, <<>>>>
    /\ cl_result[2] # <<>>
    /\ cl_result = get_file_category(config.rules, <<"r", "a", "w", ".", "p", "n", "g">>)

----------------------------------------------------------------------------
(* The configuration during a run, under SpecProgram *)

\* C22: no step of organize_directory changes the configuration: dry_run,
\* backup_enabled, create_date_folders and the rule table are, from the start
\* of a run to its end, what they were when FileOrganizer was constructed
\* and main() had applied the command line.
C22_ConfigFixedDuringRun ==
    [][~(Constructed \/ MainStarted) =>
          /\ config'.dry_run = config.dry_run
          /\ config'.backup_enabled = config.backup_enabled
          /\ config'.create_date_folders = config.create_date_folders
          /\ config'.rules = config.rules
          /\ config' = config]_vars

\* an execute run that organized files has come to its end
C22_Witness ==
    /\ pc \in {"idle", "exit"}
    /\ hist.completed >= 1
    /\ ~config.dry_run
    /\ stats.files_moved >= 1
    /\ stats.files_processed >= 2

----------------------------------------------------------------------------
(* The counters of one run, under Spec *)

\* the directories that exist now and did not when the run began
NewDirectories == dirs \ hist.dirs0

\* what the run has added to directories_created
CountedDirectories == stats.directories_created - hist.stats0.directories_created

\* C23 as stated: at the end of an execute run directories_created has grown
\* by the number of directories that the run created, category, subfolder,
\* Miscellaneous and year-month folders included, and by 0 when it created
\* none.
C23_CounterIsNewDirectories ==
    (AtSummary /\ ~config.dry_run) => CountedDirectories = Cardinality(NewDirectories)

\* the organizer was freshly constructed when the running call began
FreshRun == pc = "running" /\ hist.stats0 = ZeroStats

\* the files of files_to_process the loop has been through
Handled == hist.gathered - Len(queue)

\* C24: in a call on a freshly constructed FileOrganizer, after each file of
\* the loop files_processed + errors is the number of files handled so far,
\* and at the end of the loop the number of files gathered.
C24_ProcessedPlusErrorsIsHandled ==
    FreshRun =>
        /\ stats.files_processed + stats.errors = Handled
        /\ queue = <<>> => stats.files_processed + stats.errors = hist.gathered

\* a fresh recursive run has ended with files processed and an error
C24_Witness ==
    /\ FreshRun
    /\ queue = <<>>
    /\ hist.gathered = 3
    /\ stats.files_processed = 2
    /\ stats.errors = 1

\* C25: in a call on a freshly constructed FileOrganizer, after each file of
\* the loop: in execute mode files_moved equals files_processed; in a dry run
\* files_moved is 0 and files_processed is the number of files handled
\* without an exception.
C25_MovedIsProcessedOrZero ==
    FreshRun =>
        /\ ~config.dry_run => stats.files_moved = stats.files_processed
        /\ config.dry_run =>
              /\ stats.files_moved = 0
              /\ stats.files_processed = Handled - stats.errors

\* a fresh dry run has gone through all its files, one of them with an
\* exception
C25_Witness ==
    /\ FreshRun
    /\ config.dry_run
    /\ queue = <<>>
    /\ stats.files_processed = 2
    /\ stats.errors = 1
    /\ stats.files_moved = 0

----------------------------------------------------------------------------
(* The files a recursive run gathers, under Spec *)

\* the file p lies in or below a folder of the source directory whose name
\* is an entry of ignore_folders
InFolderNamedIgnored(p) ==
    \E i \in (Len(SourceDir) + 1)..(Len(p) - 1) :
        list_in(lower(p[i]), config.ignore_folders)

\* the files of files_to_process
Gathered == {queue[i] : i \in 1..Len(queue)}

\* C26 as stated: a recursive run leaves out of files_to_process only the
\* files under the organized root and those inside a folder named as an
\* ignore-folder; a file whose name, or whose folder, merely contains
\* "organized" or an ignore entry is gathered.
C26_OnlyOrganizedAndIgnoredLeftOut ==
    (pc = "running" /\ recursive /\ Len(queue) = hist.gathered) =>
        \A p \in DOMAIN files :
            (/\ is_prefix(SourceDir, p)
             /\ ~UnderOrganizedRoot(p)
             /\ ~InFolderNamedIgnored(p)) => p \in Gathered

----------------------------------------------------------------------------
(* Conservation of files, under Spec *)

\* the paths that hold the content of the file at p, before and after a step
PathsOf(p) == {q \in DOMAIN files : files[q].content = files[p].content}
PathsAfter(p) == {q \in DOMAIN files' : files'[q].content = files[p].content}

\* C27 as stated: in execute mode with move semantics every organize_file
\* step leaves the file it processes at exactly one path, its destination and
\* no longer its source, leaves every other file where it was, and keeps the
\* number of files.
C27_MoveConservesFiles ==
    [][(MoveMode /\ AtFile /\ last'.called) =>
          /\ PathsAfter(Head(queue)) = {last'.dest_path}
          /\ Head(queue) \notin DOMAIN files'
          /\ \A p \in DOMAIN files \ {Head(queue)} :
                p \in DOMAIN files' /\ files'[p] = files[p]
          /\ Cardinality(DOMAIN files') = Cardinality(DOMAIN files)]_vars

\* the same for the steps in which organize_file raises no exception
C27_Successful ==
    [][(MoveMode /\ AtFile /\ last'.called /\ ~last'.raised) =>
          /\ PathsAfter(Head(queue)) = {last'.dest_path}
          /\ Head(queue) \notin DOMAIN files'
          /\ \A p \in DOMAIN files \ {Head(queue)} :
                p \in DOMAIN files' /\ files'[p] = files[p]
          /\ Cardinality(DOMAIN files') = Cardinality(DOMAIN files)]_vars

----------------------------------------------------------------------------
(* A dry run as a preview, under Spec *)

\* the loop of organize_directory over the files q from the file system
\* (d, f): per file, whether organize_file raised and the dest_path it found
RECURSIVE plan(_, _, _, _, _)
plan(cfg, fm, d, f, q) ==
    IF q = <<>> THEN <<>>
    ELSE LET r == organize_file(cfg, fm, d, f, Head(q))
         IN  <<[file |-> Head(q), raised |-> r.raised, dest_path |-> r.dest_path]>>
             \o plan(cfg, fm, r.dirs, r.files, Tail(q))

\* a dry run begins
DryRunBegins == config.dry_run /\ pc = "idle" /\ pc' = "running"

\* what the dry run that begins will log, and what the execute run with the
\* same flags on the same tree and the same listing order does
DryPlan == plan(config, folder_map', dirs', files, queue')
LivePlan ==
    LET live == [config EXCEPT !.dry_run = FALSE]
        made == create_organized_structure(live, dirs, files, 0, SourceDir)
    IN  plan(live, made.folder_map, made.dirs, files, queue')

\* C28 as stated: the destination path a dry run logs for a file is the one
\* the file gets in the execute run of the same tree and flags, and the dry
\* run logs no destination path for two files.
C28_DryRunIsFaithfulPreview ==
    [][DryRunBegins =>
          /\ \A i \in 1..Len(DryPlan) :
                ~DryPlan[i].raised => DryPlan[i].dest_path = LivePlan[i].dest_path
          /\ \A i, j \in 1..Len(DryPlan) :
                (i # j /\ ~DryPlan[i].raised /\ ~DryPlan[j].raised) =>
                    DryPlan[i].dest_path # DryPlan[j].dest_path]_vars

----------------------------------------------------------------------------
(* cleanup_old_files of projects/python-tools/automation_scripts.py.  Times *)
(* are counted in days.                                                     *)

\* cleanup_old_files calls made
MaxCleanups == 2

\* datetime.now(), in days
Today == 100

\* a file of the tree: the day it was last modified, and whether unlink
\* succeeds on it
OldFile(mtime, deletable) == [mtime |-> mtime, deletable |-> deletable]

CleanupDirs == {<<<<"t">>>>, <<<<"t">>, <<"a">>>>, <<<<"t">>, <<"b">>>>}

\* the trees cleanup_old_files is started on: three files older than 30
\* days, two of which may refuse to be deleted, and a new one
CleanupTrees ==
    {(<<<<"t">>, <<"a">>, <<"1", ".", "l", "o", "g">>>> :> OldFile(50, TRUE))
     @@ (<<<<"t">>, <<"a">>, <<"2", ".", "l", "o", "g">>>> :> OldFile(60, d2))
     @@ (<<<<"t">>, <<"b">>, <<"3", ".", "l", "o", "g">>>> :> OldFile(69, d3))
     @@ (<<<<"t">>, <<"n", "e", "w", ".", "l", "o", "g">>>> :> OldFile(99, TRUE)) :
        d2 \in BOOLEAN, d3 \in BOOLEAN}

\* the directory arguments, the last of which does not exist
CleanupDirectoryArgs == {<<<<"t">>>>, <<<<"t">>, <<"a">>>>, <<<<"g", "o", "n", "e">>>>}

\* the days_old arguments: the default, and one more day
DaysOldArgs == {30, 31}

\* dir_path.rglob('*') filtered by is_file(): the files at any depth below
\* the directory
rglob_files(tree, directory) == {p \in DOMAIN tree : is_prefix(directory, p) /\ p # directory}

\* the tree without the file p: file_path.unlink()
unlink(tree, p) == [q \in DOMAIN tree \ {p} |-> tree[q]]

\* the loop over rglob: the files q still to come, the tree, old_files so far
RECURSIVE cleanup_loop(_, _, _, _, _)
cleanup_loop(tree, q, cutoff_date, dry_run, old_files) ==
    IF q = <<>> THEN [raised |-> FALSE, tree |-> tree, old_files |-> old_files]
    ELSE IF tree[Head(q)].mtime < cutoff_date
    THEN IF dry_run
         THEN cleanup_loop(tree, Tail(q), cutoff_date, dry_run, Append(old_files, Head(q)))
         ELSE IF tree[Head(q)].deletable
         THEN cleanup_loop(unlink(tree, Head(q)), Tail(q), cutoff_date, dry_run,
                           Append(old_files, Head(q)))
         ELSE \* unlink raises: the exception leaves the loop
              [raised |-> TRUE, tree |-> tree, old_files |-> Append(old_files, Head(q))]
    ELSE cleanup_loop(tree, Tail(q), cutoff_date, dry_run, old_files)

\* cleanup_old_files(directory, days_old, dry_run) with rglob listing the
\* files in the given order: the list returned and the tree afterwards
cleanup_old_files(tree, directory, days_old, dry_run, order) ==
    IF directory \notin CleanupDirs
    THEN [returned |-> <<>>, tree |-> tree, raised |-> FALSE]
    ELSE LET r == cleanup_loop(tree, order, Today - days_old, dry_run, <<>>)
         IN  [returned |-> IF r.raised THEN <<>> ELSE r.old_files,
              tree |-> r.tree,
              raised |-> r.raised]

NoCleanupCall ==
    [called |-> FALSE, command |-> FALSE, directory |-> <<>>, days_old |-> 0, dry_run |-> FALSE,
     order |-> <<>>, returned |-> <<>>, raised |-> FALSE]

\* the organizer and the template generator are not in use
OthersIdle(gen) ==
    /\ config = DefaultConfig
    /\ stats = ZeroStats
    /\ dirs = {Root}
    /\ files = NoMap
    /\ pc = "idle"
    /\ recursive = FALSE
    /\ folder_map = NoMap
    /\ queue = <<>>
    /\ runs = 0
    /\ last = NoCall
    /\ cl_name = <<>>
    /\ cl_result = <<>>
    /\ config_file = AbsentFile
    /\ args = NoArgs
    /\ hist = NoHist
    /\ generator = gen

InitCleanup ==
    /\ OthersIdle(NoTool)
    /\ \E tree \in CleanupTrees :
          cleanup = [calls |-> 0, tree |-> tree, call |-> NoCleanupCall]

\* one call of cleanup_old_files, from the command line or not
CleanupCall(directory, days_old, dry_run, command) ==
    /\ \E order \in orderings(rglob_files(cleanup.tree, directory)) :
          LET r == cleanup_old_files(cleanup.tree, directory, days_old, dry_run, order)
          IN  cleanup' = [calls |-> cleanup.calls + 1,
                          tree |-> r.tree,
                          call |-> [called |-> TRUE, command |-> command,
                                    directory |-> directory,
                                    days_old |-> days_old, dry_run |-> dry_run,
                                    order |-> order, returned |-> r.returned,
                                    raised |-> r.raised]]
    /\ UNCHANGED organizer_vars
    /\ UNCHANGED generator

\* SystemAutomation().cleanup_old_files(directory, days_old, dry_run)
CleanupOldFiles(directory, days_old, dry_run) ==
    /\ cleanup.calls < MaxCleanups
    /\ CleanupCall(directory, days_old, dry_run, FALSE)

\* main() with the command "cleanup directory --days n [--execute]"
MainCleanup(directory, days, execute) ==
    /\ cleanup.calls < MaxCleanups
    /\ CleanupCall(directory, days, ~execute, TRUE)

NextCleanup ==
    \/ \E directory \in CleanupDirectoryArgs, days_old \in DaysOldArgs, dry_run \in BOOLEAN :
          CleanupOldFiles(directory, days_old, dry_run)
    \/ \E directory \in CleanupDirectoryArgs, days \in DaysOldArgs, execute \in BOOLEAN :
          MainCleanup(directory, days, execute)

SpecCleanup == InitCleanup /\ [][NextCleanup]_vars

\* the elements of a list
Elements(list) == {list[i] : i \in 1..Len(list)}

\* C29 as stated: a call with dry_run=True deletes nothing and returns the
\* list that the call with dry_run=False on the same tree at the same time
\* deletes and returns; after a call with dry_run=False every returned file
\* is gone and every file not returned is still there.
C29_DryRunListsWhatExecuteDeletes ==
    [][cleanup'.calls = cleanup.calls + 1 =>
          LET c == cleanup'.call
              live == cleanup_old_files(cleanup.tree, c.directory, c.days_old,
                                        FALSE, c.order)
          IN  /\ c.dry_run =>
                    /\ cleanup'.tree = cleanup.tree
                    /\ c.returned = live.returned
                    /\ Elements(c.returned) = DOMAIN cleanup.tree \ DOMAIN live.tree
              /\ ~c.dry_run =>
                    /\ \A p \in Elements(c.returned) : p \notin DOMAIN cleanup'.tree
                    /\ \A p \in DOMAIN cleanup.tree \ Elements(c.returned) :
                          p \in DOMAIN cleanup'.tree]_vars

\* the same for the calls in which unlink succeeds on every old file
C29_WhenEveryUnlinkSucceeds ==
    [][(/\ cleanup'.calls = cleanup.calls + 1
        /\ \A p \in DOMAIN cleanup.tree : cleanup.tree[p].deletable) =>
          LET c == cleanup'.call
              live == cleanup_old_files(cleanup.tree, c.directory, c.days_old,
                                        FALSE, c.order)
          IN  /\ c.dry_run =>
                    /\ cleanup'.tree = cleanup.tree
                    /\ c.returned = live.returned
                    /\ Elements(c.returned) = DOMAIN cleanup.tree \ DOMAIN live.tree
              /\ ~c.dry_run =>
                    /\ \A p \in Elements(c.returned) : p \notin DOMAIN cleanup'.tree
                    /\ \A p \in DOMAIN cleanup.tree \ Elements(c.returned) :
                          p \in DOMAIN cleanup'.tree]_vars

----------------------------------------------------------------------------
(* generate_project of projects/developer-tools/template_generator.py.  A   *)
(* project name is the path it denotes from the working directory, ""       *)
(* being the working directory itself.                                      *)

\* generate_project calls made
MaxGenerates == 2

\* self.templates: the template names of each project type
templates ==
    (<<"p", "y", "t", "h", "o", "n">> :> {<<"s", "c", "r", "i", "p", "t">>, <<"f", "l", "a", "s", "k", "_", "a", "p", "p">>, <<"d", "j", "a", "n", "g", "o", "_", "a", "p", "p">>, <<"c", "l", "i", "_", "t", "o", "o", "l">>,
                   <<"d", "a", "t", "a", "_", "a", "n", "a", "l", "y", "s", "i", "s">>, <<"m", "l", "_", "p", "r", "o", "j", "e", "c", "t">>})
    @@ (<<"w", "e", "b">> :> {<<"h", "t", "m", "l", "_", "p", "a", "g", "e">>, <<"r", "e", "a", "c", "t", "_", "c", "o", "m", "p", "o", "n", "e", "n", "t">>, <<"v", "u", "e", "_", "c", "o", "m", "p", "o", "n", "e", "n", "t">>,
                   <<"e", "x", "p", "r", "e", "s", "s", "_", "a", "p", "p">>, <<"f", "u", "l", "l", "_", "s", "t", "a", "c", "k">>})
    @@ (<<"m", "o", "b", "i", "l", "e">> :> {<<"r", "e", "a", "c", "t", "_", "n", "a", "t", "i", "v", "e">>, <<"f", "l", "u", "t", "t", "e", "r", "_", "a", "p", "p">>})
    @@ (<<"d", "a", "t", "a">> :> {<<"a", "p", "i", "_", "c", "l", "i", "e", "n", "t">>, <<"d", "a", "t", "a", "b", "a", "s", "e", "_", "s", "c", "h", "e", "m", "a">>, <<"e", "t", "l", "_", "p", "i", "p", "e", "l", "i", "n", "e">>})
    @@ (<<"d", "e", "v", "o", "p", "s">> :> {<<"d", "o", "c", "k", "e", "r", "f", "i", "l", "e">>, <<"c", "i", "_", "c", "d">>, <<"t", "e", "r", "r", "a", "f", "o", "r", "m">>})

\* project_type in self.templates and template_name in self.templates[project_type]
template_known(project_type, template_name) ==
    /\ project_type \in DOMAIN templates
    /\ template_name \in templates[project_type]

\* the project types and template names given: known pairs, a template of
\* another type, an unknown template, an unknown type, and nothing
TemplateArgs ==
    {<<<<"p", "y", "t", "h", "o", "n">>, <<"s", "c", "r", "i", "p", "t">>>>, <<<<"p", "y", "t", "h", "o", "n">>, <<"c", "l", "i", "_", "t", "o", "o", "l">>>>, <<<<"w", "e", "b">>, <<"h", "t", "m", "l", "_", "p", "a", "g", "e">>>>,
     <<<<"d", "e", "v", "o", "p", "s">>, <<"d", "o", "c", "k", "e", "r", "f", "i", "l", "e">>>>, <<<<"w", "e", "b">>, <<"s", "c", "r", "i", "p", "t">>>>, <<<<"p", "y", "t", "h", "o", "n">>, <<"n", "o", "s", "u", "c", "h">>>>,
     <<<<"r", "u", "s", "t">>, <<"s", "c", "r", "i", "p", "t">>>>, <<<<>>, <<>>>>}

\* the project names given: new ones, a nested one, an existing directory,
\* an existing file, a path below a file, and the empty name
ProjectNames ==
    {<<<<"a", "p", "p">>>>, <<<<"M", "y", "-", "A", "p", "p">>>>, <<<<"a">>, <<"b">>>>, <<<<"d", "o", "c", "s">>>>, <<<<"n", "o", "t", "e", "s", ".", "t", "x", "t">>>>,
     <<<<"n", "o", "t", "e", "s", ".", "t", "x", "t">>, <<"s", "u", "b">>>>, <<>>}

\* the working directory generate_project is started in
GeneratorDirs == {<<>>, <<<<"d", "o", "c", "s">>>>}
GeneratorFiles == (<<<<"n", "o", "t", "e", "s", ".", "t", "x", "t">>>> :> <<"n", "o", "t", "e", "s">>) @@ (<<<<"d", "o", "c", "s">>, <<"i", "n", "d", "e", "x", ".", "m", "d">>>> :> <<"i", "n", "d", "e", "x">>)

\* str.replace('-', '_')
replace_dash(s) == [i \in 1..Len(s) |-> IF s[i] = "-" THEN "_" ELSE s[i]]

\* project_name.lower().replace('-', '_')
module_name(name) == replace_dash(lower(name))

\* generate_python_script on a project name of one component: the script,
\* requirements.txt, tests/ and the test file
python_script_files(project_path, name) ==
    LET script_file == path_join(project_path, module_name(name) \o <<".", "p", "y">>)
        tests_dir == path_join(project_path, <<"t", "e", "s", "t", "s">>)
        test_file == path_join(tests_dir, <<"t", "e", "s", "t", "_">> \o module_name(name) \o <<".", "p", "y">>)
    IN  [dirs |-> {tests_dir},
         files |-> (script_file :> <<"s", "c", "r", "i", "p", "t">>)
                   @@ (path_join(project_path, <<"r", "e", "q", "u", "i", "r", "e", "m", "e", "n", "t", "s", ".", "t", "x", "t">>) :> <<"r", "e", "q", "u", "i", "r", "e", "m", "e", "n", "t", "s">>)
                   @@ (test_file :> <<"t", "e", "s", "t">>)]

\* generate_dockerfile: Dockerfile, docker-compose.yml, .dockerignore
dockerfile_files(project_path) ==
    [dirs |-> {},
     files |-> (path_join(project_path, <<"D", "o", "c", "k", "e", "r", "f", "i", "l", "e">>) :> <<"d", "o", "c", "k", "e", "r", "f", "i", "l", "e">>)
               @@ (path_join(project_path, <<"d", "o", "c", "k", "e", "r", "-", "c", "o", "m", "p", "o", "s", "e", ".", "y", "m", "l">>) :> <<"c", "o", "m", "p", "o", "s", "e">>)
               @@ (path_join(project_path, <<".", "d", "o", "c", "k", "e", "r", "i", "g", "n", "o", "r", "e">>) :> <<"d", "o", "c", "k", "e", "r", "i", "g", "n", "o", "r", "e">>)]

\* self.templates[project_type][template_name](project_path, project_name,
\* options) in a directory just made: whether it raised, and what it wrote.
\* The script of the python templates is project_path / (project_name + ".py"),
\* which lies in a directory that is not there when the name has several
\* components: write_text raises FileNotFoundError.
\* Of the templates given here: flask_app and react_component write other
\* files and are not among them.
handler(project_type, template_name, project_path) ==
    IF project_type = <<"p", "y", "t", "h", "o", "n">> /\ template_name # <<"f", "l", "a", "s", "k", "_", "a", "p", "p">>
    THEN IF Len(project_path) > 1
         THEN [raised |-> TRUE, dirs |-> {}, files |-> NoMap]
         ELSE [raised |-> FALSE] @@ python_script_files(project_path, project_path[1])
    ELSE IF template_name = <<"d", "o", "c", "k", "e", "r", "f", "i", "l", "e">>
    THEN [raised |-> FALSE] @@ dockerfile_files(project_path)
    ELSE [raised |-> FALSE, dirs |-> {}, files |-> NoMap]

\* create_readme and create_gitignore
readme_and_gitignore(project_path) ==
    (path_join(project_path, <<"R", "E", "A", "D", "M", "E", ".", "m", "d">>) :> <<"r", "e", "a", "d", "m", "e">>)
    @@ (path_join(project_path, <<".", "g", "i", "t", "i", "g", "n", "o", "r", "e">>) :> <<"g", "i", "t", "i", "g", "n", "o", "r", "e">>)

\* a bug: the project directory is not made
make_project_dir_skipped(d, f, project_path) == [ok |-> TRUE, dirs |-> d]

\* project_path.mkdir(parents=True)
make_project_dir(d, f, project_path) == mkdir(d, f, project_path, TRUE, FALSE)

\* generate_project(project_type, template_name, project_name): what it
\* returns ("True", "False", or "raised" when an exception leaves it) and the
\* directories and files afterwards
generate_project(d, f, project_type, template_name, project_path) ==
    IF exists(d, f, project_path)
    THEN [outcome |-> "False", dirs |-> d, files |-> f]
    ELSE LET made == make_project_dir(d, f, project_path)
         IN  IF ~made.ok
             THEN [outcome |-> "raised", dirs |-> made.dirs, files |-> f]
             ELSE IF template_known(project_type, template_name)
             THEN LET h == handler(project_type, template_name, project_path)
                  IN  IF h.raised
                      THEN [outcome |-> "raised", dirs |-> made.dirs, files |-> f]
                      ELSE [outcome |-> "True",
                            dirs |-> made.dirs \cup h.dirs,
                            files |-> readme_and_gitignore(project_path) @@ h.files @@ f]
             ELSE [outcome |-> "False", dirs |-> made.dirs, files |-> f]

NoGenerateCall ==
    [called |-> FALSE, command |-> FALSE, project_type |-> <<>>,
     template_name |-> <<>>, project_name |-> <<>>, outcome |-> "none"]

\* the organizer and cleanup_old_files are not in use
InitGenerator ==
    /\ OthersIdle([calls |-> 0, dirs |-> GeneratorDirs, files |-> GeneratorFiles,
                   call |-> NoGenerateCall])
    /\ cleanup = NoTool

\* the generator after one call of generate_project
generator_after(project_type, template_name, project_name, command) ==
    LET r == generate_project(generator.dirs, generator.files, project_type,
                              template_name, project_name)
    IN  [calls |-> generator.calls + 1, dirs |-> r.dirs, files |-> r.files,
         call |-> [called |-> TRUE, command |-> command,
                   project_type |-> project_type, template_name |-> template_name,
                   project_name |-> project_name, outcome |-> r.outcome]]

\* TemplateGenerator().generate_project(project_type, template_name, project_name)
GenerateProject(project_type, template_name, project_name) ==
    /\ generator.calls < MaxGenerates
    /\ generator' = generator_after(project_type, template_name, project_name, FALSE)
    /\ UNCHANGED organizer_vars
    /\ UNCHANGED cleanup

\* main(): with --list, or with an argument missing or empty, nothing is
\* generated; otherwise generate_project is called with the arguments
MainGenerate(list, project_type, template_name, project_name) ==
    /\ generator.calls < MaxGenerates
    /\ generator' =
          IF list \/ project_type = <<>> \/ template_name = <<>> \/ project_name = <<>>
          THEN [generator EXCEPT !.calls = @ + 1,
                                 !.call = [NoGenerateCall EXCEPT !.command = TRUE]]
          ELSE generator_after(project_type, template_name, project_name, TRUE)
    /\ UNCHANGED organizer_vars
    /\ UNCHANGED cleanup

NextGenerator ==
    \/ \E t \in TemplateArgs, project_name \in ProjectNames :
          GenerateProject(t[1], t[2], project_name)
    \/ \E list \in BOOLEAN, t \in TemplateArgs, project_name \in ProjectNames :
          MainGenerate(list, t[1], t[2], project_name)

SpecGenerator == InitGenerator /\ [][NextGenerator]_vars

\* the step is a call of generate_project
GenerateCalled == generator'.calls = generator.calls + 1 /\ generator'.call.called

\* the project path of the call exists before the call
ExistedBefore == exists(generator.dirs, generator.files, generator'.call.project_name)

\* the call just made was given an unknown type or template name
UnknownGiven(call) == ~template_known(call.project_type, call.template_name)

\* C30: a call of generate_project on a project path that already exists
\* returns False and leaves directories and files as they were; a call with
\* an unknown project type or template name on a path that does not exist
\* never returns True, and where it returns False the project directory has
\* been made and nothing else changed but its missing parents; the call
\* that follows such a False with the same project name and a known template
\* returns False too and changes nothing.
C30_FalseOnExistingAndAfterUnknown ==
    [][GenerateCalled =>
          LET c == generator'.call
          IN  /\ ExistedBefore =>
                    /\ c.outcome = "False"
                    /\ generator'.dirs = generator.dirs
                    /\ generator'.files = generator.files
              /\ (UnknownGiven(c) /\ ~ExistedBefore) =>
                    /\ c.outcome # "True"
                    /\ c.outcome = "False" =>
                          /\ c.project_name \in generator'.dirs
                          /\ c.project_name \notin generator.dirs
                          /\ generator'.files = generator.files
                          /\ \A p \in generator'.dirs \ generator.dirs :
                                is_prefix(p, c.project_name)
              /\ (/\ generator.call.called
                  /\ UnknownGiven(generator.call)
                  /\ generator.call.outcome = "False"
                  /\ c.project_name = generator.call.project_name
                  /\ ~UnknownGiven(c)) =>
                    /\ c.outcome = "False"
                    /\ generator'.dirs = generator.dirs
                    /\ generator'.files = generator.files]_vars

\* a call with an unknown template made the directory "app" and returned
\* False, and the call after it, with the same name and a known template,
\* returned False and left the directory empty
C30_Witness ==
    /\ generator.calls = 2
    /\ generator.call.called
    /\ generator.call.project_name = <<<<"a", "p", "p">>>>
    /\ ~UnknownGiven(generator.call)
    /\ generator.call.outcome = "False"
    /\ <<<<"a", "p", "p">>>> \in generator.dirs
    /\ <<<<"a", "p", "p">>>> \notin GeneratorDirs
    /\ \A p \in DOMAIN generator.files : ~is_prefix(<<<<"a", "p", "p">>>>, p)

====
